---- MODULE Spec2Model ----
(***************************************************************************)
(* wabi.js: the polygon generator of the source tree                       *)
(*   core/polygon.js  (src/src/core/polygon.js)                            *)
(*   core/corners.js  (src/unnamed/part_008, lines 1-84)                   *)
(*   core/edges.js    (src/unnamed/part_005, lines 1-133)                  *)
(*   utils/random.js  (src/unnamed/part_002, lines 1-36)                   *)
(*                                                                         *)
(* Numbers.  A JavaScript number is modelled as a fixed-point integer that *)
(* counts units of 1/Scale (1.0 is Scale), or as the value NaN.  Products  *)
(* and quotients round to the nearest unit.  The 32-bit words of the       *)
(* seeded generator are exact: a word is a record of two 16-bit halves.    *)
(*                                                                         *)
(* Calls.  generatePolygon is synchronous; two calls of it (Inv) are       *)
(* modelled, each running through its three phases (corners, edge          *)
(* insertion, corner cutting).  The phases of the two calls may interleave *)
(* so that any state the calls share would show.                           *)
(***************************************************************************)
EXTENDS Integers, Sequences, FiniteSets, TLC

VARIABLES
    args,        \* args[i]: the arguments of call i (width, height, options)
    pc,          \* pc[i]: the phase call i is about to run
    rng,         \* rng[i]: the generator object call i got from getRNG
    mathRandom,  \* hidden state of the engine's Math.random (shared by all)
    corners,     \* corners[i]: the local `corners` of call i
    polygon,     \* polygon[i]: the local `polygon` of call i (the result at "done")
    cornersToCut,\* cornersToCut[i]: the local `cornersToCut` of call i
    positions,   \* positions[i]: history, per edge the positions t in emitted order
    element,     \* the element of the page: inline clip-path, parent, size, instance
    instances,   \* instances[k]: the WabiElement of control object k, or Null
    controls,    \* controls[c]: the Wabi control object c, or Null
    loop,        \* the singleton Loop: items, isRunning, frameId
    wrappers,    \* the entry of shadowManager.wrappers for the element, or Null
    resize,      \* the shared ResizeObserver and the element's entry of resizeCallbacks
    original,    \* history: the inline clip-path before the first wabi()
    calls,       \* history: the arguments of the wabi() calls, after the selector
    thrown,      \* history: the error the last wabi() call threw, or Null
    generator,   \* a generator function made by createRNG, called on its own
    wrapped,     \* history: seed + calls * 0x6d2b79f5 modulo 2^32 for generator
    returned,    \* history: the k of the k / 2^32 that generator returned last
    applied      \* a function of the library called on its own: name, arguments, result

polygonVars == <<args, pc, rng, mathRandom, corners, polygon, cornersToCut, positions>>

domVars ==
    <<element, instances, controls, loop, wrappers, resize, original, calls, thrown>>

rngVars == <<generator, wrapped, returned>>

fnVars == <<applied>>

vars == <<polygonVars, domVars, rngVars, fnVars>>

---------------------------------------------------------------------------
(* Bounds of the model *)

\* resolution of the fixed-point numbers: 1.0 is Scale units
Scale == 100
\* largest edges.points tried
MaxPoints == 2
\* calls of a generator function that are followed one by one
MaxDraws == 8
\* calls of a generator function before the calls that are followed
LateCalls == 4917754

Inv == {1, 2}

\* the control objects, in the order wabi() returns them; WabiElement k is
\* the one control object k creates for the element
Ids == {1, 2}
\* the default interval of animate(), in ms
DefaultInterval == 100

---------------------------------------------------------------------------
(* JavaScript values *)

Undefined == [t |-> "undefined"]
Null == [t |-> "null"]
Num(v) == [t |-> "number", v |-> v]

\* F(v) with v evaluated once: how a `const` of the source is bound
With(v, F(_)) == CHOOSE y \in {F(d) : d \in {v}} : TRUE

\* the value NaN of a coordinate (outside the range of every number used)
NaN == 0 - 1000000000

\* n whole units as a fixed-point number
FP(n) == n * Scale

\* n / d rounded to the nearest integer, d > 0
RoundDiv(n, d) == IF n >= 0 THEN (2 * n + d) \div (2 * d)
                  ELSE 0 - ((2 * (0 - n) + d) \div (2 * d))

\* the decimal literal k/10 of the source (0.1, 0.5, 0.6, 0.8, 0.9)
Tenths(k) == RoundDiv(k * Scale, 10)

Neg(a) == IF a = NaN THEN NaN ELSE 0 - a
Add(a, b) == IF a = NaN \/ b = NaN THEN NaN ELSE a + b
Sub(a, b) == IF a = NaN \/ b = NaN THEN NaN ELSE a - b
Mul(a, b) == IF a = NaN \/ b = NaN THEN NaN ELSE RoundDiv(a * b, Scale)
\* a / b.  0 / 0 is NaN.  The only divisor that can be 0 here is an edge
\* length, which is 0 only when both components of the edge vector are 0.
Div(a, b) == IF a = NaN \/ b = NaN \/ b = 0 THEN NaN
             ELSE IF b > 0 THEN RoundDiv(a * Scale, b)
             ELSE 0 - RoundDiv(a * Scale, 0 - b)
\* Math.max, Math.min: NaN if either argument is NaN
MathMax(a, b) == IF a = NaN \/ b = NaN THEN NaN ELSE IF a >= b THEN a ELSE b
MathMin(a, b) == IF a = NaN \/ b = NaN THEN NaN ELSE IF a <= b THEN a ELSE b

RECURSIVE SqrtSearch(_, _, _)
\* the largest r in lo..hi with r*r <= v
SqrtSearch(v, lo, hi) ==
    IF lo >= hi THEN lo
    ELSE LET mid == (lo + hi + 1) \div 2
         IN IF mid * mid <= v THEN SqrtSearch(v, mid, hi)
            ELSE SqrtSearch(v, lo, mid - 1)

\* Math.sqrt(x*x + y*y) of two fixed-point numbers, as a fixed-point number
Hypot(x, y) == IF x = NaN \/ y = NaN THEN NaN
               ELSE SqrtSearch(x * x + y * y, 0, 46340)

---------------------------------------------------------------------------
(* 32-bit words: utils/random.js computes with Math.imul, ^, |, >>> *)

\* 2^16
Half == 256 * 256
Word(h, l) == [hi |-> h, lo |-> l]

RECURSIVE BitOp(_, _, _, _)
\* bitwise xor (op = 1) or bitwise or (op = 2) of two n-bit numbers
BitOp(op, x, y, n) ==
    IF n = 0 THEN 0
    ELSE LET a == x % 2
             b == y % 2
             r == IF op = 1 THEN (a + b) % 2 ELSE IF a + b > 0 THEN 1 ELSE 0
         IN r + 2 * BitOp(op, x \div 2, y \div 2, n - 1)

\* xor and or of two 4-bit numbers, tabulated
XorTable == [a \in 0..15 |-> [b \in 0..15 |-> BitOp(1, a, b, 4)]]
OrTable == [a \in 0..15 |-> [b \in 0..15 |-> BitOp(2, a, b, 4)]]
\* a bitwise operation on two 16-bit numbers, four bits at a time
Bitwise16(T, x, y) ==
    T[x % 16][y % 16] + 16 * T[(x \div 16) % 16][(y \div 16) % 16]
    + 256 * T[(x \div 256) % 16][(y \div 256) % 16]
    + 4096 * T[x \div 4096][y \div 4096]

Xor32(a, b) == Word(Bitwise16(XorTable, a.hi, b.hi), Bitwise16(XorTable, a.lo, b.lo))
Or32(a, b) == Word(Bitwise16(OrTable, a.hi, b.hi), Bitwise16(OrTable, a.lo, b.lo))
\* a + b modulo 2^32
Add32(a, b) == LET l == a.lo + b.lo
               IN Word((a.hi + b.hi + l \div Half) % Half, l % Half)
\* a >>> k for 0 < k < 16, p = 2^k
Shr32(a, p) == Word(a.hi \div p, (a.hi % p) * (Half \div p) + a.lo \div p)
\* Math.imul(a, b): the low 32 bits of the product
Imul(a, b) ==
    LET p0 == (a.lo % 256) * b.lo
        p1 == (a.lo \div 256) * b.lo
        low == Word(p0 \div Half, p0 % Half)
        mid == Word((p1 \div 256) % Half, (p1 % 256) * 256)
        c1 == ((((a.hi \div 256) * b.lo) % 256) * 256 + (a.hi % 256) * b.lo) % Half
        c2 == ((((b.hi \div 256) * a.lo) % 256) * 256 + (b.hi % 256) * a.lo) % Half
    IN Add32(Add32(low, mid), Word((c1 + c2) % Half, 0))

\* ToInt32 of an integer seed (two's complement for a negative seed)
ToWord(n) == Word((n \div Half) % Half, n % Half)

\* w / 4294967296 as a fixed-point number: floor(w * Scale / 2^32)
Unit32(w) == (w.hi * Scale + (w.lo * Scale) \div Half) \div Half

---------------------------------------------------------------------------
(* utils/random.js *)

\* 0x6d2b79f5
Increment == Word(27947, 31221)

\* the body of the generator function of createRNG, for the incremented seed
Mulberry32(s) ==
    LET t1 == Imul(Xor32(s, Shr32(s, 32768)), Or32(s, Word(0, 1)))
        t2 == Xor32(t1, Add32(t1, Imul(Xor32(t1, Shr32(t1, 128)), Or32(t1, Word(0, 61)))))
    IN Xor32(t2, Shr32(t2, 16384))

\* The variable `seed` of the closure is a JavaScript number: `seed +=
\* 0x6d2b79f5` is an addition of doubles, and only the bitwise operators of
\* the next lines reduce their operand modulo 2^32.  An integer is kept as
\* over * 2^32 + word with word in 0..2^32-1 (over is -1 for a negative
\* 32-bit integer).
JSInteger(n) == [over |-> IF n < 0 THEN 0 - 1 ELSE 0, word |-> ToWord(n)]

\* a + b for two integers, exact
AddExact(a, b) ==
    LET l == a.word.lo + b.word.lo
        h == a.word.hi + b.word.hi + l \div Half
    IN [over |-> a.over + b.over + h \div Half, word |-> Word(h % Half, l % Half)]

\* 2^53 / 2^32: below 2^53 every integer is a double
ExactOver == 32 * Half

\* the double nearest to the integer a, for 0 <= a < 2^54: from 2^53 on the
\* doubles are the even integers, and an odd integer goes to the neighbour
\* with the even significand, a multiple of 4
ToDouble(a) ==
    IF a.over < ExactOver \/ a.word.lo % 2 = 0 THEN a
    ELSE IF a.word.lo % 4 = 1 THEN [a EXCEPT !.word.lo = @ - 1]
    ELSE AddExact(a, JSInteger(1))

\* seed += 0x6d2b79f5 (part_002 line 8): the new value of seed
AddIncrement(seed) == ToDouble(AddExact(seed, [over |-> 0, word |-> Increment]))

\* createRNG(seed): a closure over its own copy of seed; calls counts its calls
createRNG(seed) == [kind |-> "seeded", seed |-> JSInteger(seed), calls |-> 0]

\* Math.random: the engine's generator, one hidden state for the whole page
MathRandomFn == [kind |-> "Math.random", seed |-> JSInteger(0), calls |-> 0]

\* a generator function the caller wrote (the rng parameter of the exported
\* generateEdgePoints): it returns the values given, one per call, in turn
suppliedRNG(values) ==
    [kind |-> "supplied", seed |-> JSInteger(0), calls |-> 0, values |-> values]

\* before getRNG has run
NoRNG == [kind |-> "none", seed |-> JSInteger(0), calls |-> 0]

\* the generator function of createRNG (part_002 lines 7-12) called on the
\* closure g: the k of the k / 4294967296 it returns, and the closure after
Generate(g) ==
    With(AddIncrement(g.seed), LAMBDA s :
      [k |-> Mulberry32(s.word), rng |-> [g EXCEPT !.seed = s, !.calls = @ + 1]])

\* a variant of getRNG that tests the seed for truthiness (`seed ? ... : ...`)
getRNGTruthy(seed) ==
    IF seed = Null \/ seed = Undefined \/ seed.v = 0 THEN MathRandomFn ELSE createRNG(seed.v)

\* getRNG(seed)
getRNG(seed) ==
    IF seed = Null \/ seed = Undefined THEN MathRandomFn ELSE createRNG(seed.v)

\* A source of random numbers: a generator object and the engine state.
Source(r, e) == [rng |-> r, engine |-> e]

\* the integer seeds tried
SeedValues == {0, 0 - 1, 1, 42}
\* hidden states the engine's generator may be in when the page starts
EngineStates == {Word(0, 0), Word(51966, 47806)}
\* the step of the engine's hidden state
EngineStep == Word(40503, 31161)

\* the most rng() calls of one generatePolygon call: 8 for the corners,
\* 2 per edge point, 3 for the corner selection
CallsPerPolygon == 8 + 8 * MaxPoints + 3

RECURSIVE Orbit(_, _, _)
\* the k states that follow state w of a generator that steps by inc
Orbit(w, inc, k) ==
    IF k = 0 THEN {} ELSE {Add32(w, inc)} \cup Orbit(Add32(w, inc), inc, k - 1)

\* The values the generators return, tabulated over every state the calls
\* modelled can bring them to (the table only saves recomputation).
GeneratorStates ==
    UNION {Orbit(ToWord(v), Increment, CallsPerPolygon) : v \in SeedValues}
    \cup UNION {Orbit(w, EngineStep, 2 * CallsPerPolygon) : w \in EngineStates}
Returned == [w \in GeneratorStates |-> Unit32(Mulberry32(w))]

\* a variant of rng() in which every generator function advances the one
\* state of the engine
CallRNGSharedState(src) ==
    With(Add32(src.engine, EngineStep), LAMBDA e :
      [value |-> Returned[e],
       src |-> [src EXCEPT !.engine = e, !.rng.calls = @ + 1]])

\* rng(): the value returned, in [0, 1), and the source after the call.
\* The engine's algorithm is not part of the repository; its hidden state
\* advances on every call, whoever calls.
CallRNG(src) ==
    IF src.rng.kind = "seeded"
    THEN With(AddIncrement(src.rng.seed), LAMBDA s :
           [value |-> Returned[s.word],
            src |-> [src EXCEPT !.rng.seed = s, !.rng.calls = @ + 1]])
    ELSE IF src.rng.kind = "supplied"
    THEN [value |-> src.rng.values[(src.rng.calls % Len(src.rng.values)) + 1],
          src |-> [src EXCEPT !.rng.calls = @ + 1]]
    ELSE With(Add32(src.engine, EngineStep), LAMBDA e :
           [value |-> Returned[e],
            src |-> [src EXCEPT !.engine = e, !.rng.calls = @ + 1]])

RECURSIVE CallRNGTimes(_, _)
\* k calls of rng() in a row: the values in call order and the source after
CallRNGTimes(src, k) ==
    IF k = 0 THEN [values |-> <<>>, src |-> src]
    ELSE With(CallRNG(src), LAMBDA c :
           With(CallRNGTimes(c.src, k - 1), LAMBDA rest :
             [values |-> <<c.value>> \o rest.values, src |-> rest.src]))

\* randomInRange(rng, min, max) for the value u that rng() returned
randomInRange(u, min, max) == Add(min, Mul(u, Sub(max, min)))

---------------------------------------------------------------------------
(* core/corners.js *)

Point(x, y, slot) == [x |-> x, y |-> y, slot |-> slot]
\* slot is history, not program data: the corner index 0..3 (TL, TR, BR, BL)
\* of a point pushed as a corner, and -1 for a point made by the edge inserter.
EdgeSlot == 0 - 1

\* a variant of clampCornerX that does not clamp
clampCornerXNone(x, cornerIndex, width, maxOffset) == x

clampCornerX(x, cornerIndex, width, maxOffset) ==
    IF cornerIndex = 0 \/ cornerIndex = 3
    THEN MathMax(0, MathMin(x, maxOffset * 2))
    ELSE MathMax(width - maxOffset * 2, MathMin(x, width))

\* a variant of clampCornerY that does not clamp
clampCornerYNone(y, cornerIndex, height, maxOffset) == y

clampCornerY(y, cornerIndex, height, maxOffset) ==
    IF cornerIndex = 0 \/ cornerIndex = 1
    THEN MathMax(0, MathMin(y, maxOffset * 2))
    ELSE MathMax(height - maxOffset * 2, MathMin(y, height))

\* a variant of baseCorners with the two top corners listed at each other's place
baseCornersTopSwapped(width, height) ==
    << Point(width, 0, 0), Point(0, 0, 1), Point(width, height, 2), Point(0, height, 3) >>

\* baseCorners, index 0..3 at position 1..4
baseCorners(width, height) ==
    << Point(0, 0, 0), Point(width, 0, 1), Point(width, height, 2), Point(0, height, 3) >>

\* a variant of generateCorners without the early return for zero offsets
\* (the uniform displacement is drawn and added whatever the offsets)
generateCornersNoEarlyReturn(width, height, cornerOptions, src) ==
    With(CallRNGTimes(src, 2), LAMBDA d :
      LET dx == randomInRange(d.values[1], Neg(cornerOptions.x), cornerOptions.x)
          dy == randomInRange(d.values[2], Neg(cornerOptions.y), cornerOptions.y)
      IN [corners |->
            [k \in 1..4 |->
               Point(clampCornerX(Add(baseCorners(width, height)[k].x, dx), k - 1, width,
                                  cornerOptions.x),
                     clampCornerY(Add(baseCorners(width, height)[k].y, dy), k - 1, height,
                                  cornerOptions.y),
                     k - 1)],
          src |-> d.src])

\* a variant of generateCorners that draws dy before dx
generateCornersDyFirst(width, height, cornerOptions, src) ==
    IF cornerOptions.x = 0 /\ cornerOptions.y = 0
    THEN [corners |-> baseCorners(width, height), src |-> src]
    ELSE With(CallRNGTimes(src, IF cornerOptions.independent THEN 8 ELSE 2), LAMBDA d :
           [corners |->
              [k \in 1..4 |->
                 LET first == IF cornerOptions.independent THEN 2 * k - 1 ELSE 1
                     dy == randomInRange(d.values[first], Neg(cornerOptions.y), cornerOptions.y)
                     dx == randomInRange(d.values[first + 1], Neg(cornerOptions.x),
                                         cornerOptions.x)
                 IN Point(clampCornerX(Add(baseCorners(width, height)[k].x, dx), k - 1,
                                       width, cornerOptions.x),
                          clampCornerY(Add(baseCorners(width, height)[k].y, dy), k - 1,
                                       height, cornerOptions.y),
                          k - 1)],
            src |-> d.src])

\* generateCorners(width, height, cornerOptions, rng):
\* [corners, src]; the arguments are fixed-point numbers
generateCorners(width, height, cornerOptions, src) ==
    LET offsetX == cornerOptions.x
        offsetY == cornerOptions.y
        base == baseCorners(width, height)
    IN IF offsetX = 0 /\ offsetY = 0
       THEN [corners |-> base, src |-> src]
       ELSE IF cornerOptions.independent
       THEN With(CallRNGTimes(src, 8), LAMBDA d :
              [corners |->
                 [k \in 1..4 |->
                    LET dx == randomInRange(d.values[2 * k - 1], Neg(offsetX), offsetX)
                        dy == randomInRange(d.values[2 * k], Neg(offsetY), offsetY)
                    IN Point(clampCornerX(Add(base[k].x, dx), k - 1, width, offsetX),
                             clampCornerY(Add(base[k].y, dy), k - 1, height, offsetY),
                             k - 1)],
               src |-> d.src])
       ELSE With(CallRNGTimes(src, 2), LAMBDA d :
              LET dx == randomInRange(d.values[1], Neg(offsetX), offsetX)
                  dy == randomInRange(d.values[2], Neg(offsetY), offsetY)
              IN [corners |->
                    [k \in 1..4 |->
                       Point(clampCornerX(Add(base[k].x, dx), k - 1, width, offsetX),
                             clampCornerY(Add(base[k].y, dy), k - 1, height, offsetY),
                             k - 1)],
                  src |-> d.src])

---------------------------------------------------------------------------
(* core/edges.js *)

RECURSIVE Insert(_, _)
\* v put into the ascending sequence s, after the elements equal to it
Insert(s, v) ==
    IF s = <<>> THEN <<v>>
    ELSE IF v < Head(s) THEN <<v>> \o s
    ELSE <<Head(s)>> \o Insert(Tail(s), v)

\* a variant of the sort that leaves the positions in the order drawn
SortOmitted(s) == s

RECURSIVE SortAscending(_)
\* positions.sort((a, b) => a - b)
SortAscending(s) ==
    IF s = <<>> THEN <<>>
    ELSE Insert(SortAscending(SubSeq(s, 1, Len(s) - 1)), s[Len(s)])

\* a variant of getPositions whose even positions are i / count
getPositionsOverCount(count, distribution, src) ==
    IF distribution = "even"
    THEN [positions |-> [i \in 1..count |-> Div(FP(i), FP(count))], src |-> src]
    ELSE With(CallRNGTimes(src, count), LAMBDA d :
           [positions |->
              SortAscending([i \in 1..count |-> Add(Tenths(1), Mul(d.values[i], Tenths(8)))]),
            src |-> d.src])

\* a variant of getPositions whose random positions are rng() itself
getPositionsWholeEdge(count, distribution, src) ==
    IF distribution = "even"
    THEN [positions |-> [i \in 1..count |-> Div(FP(i), FP(count + 1))], src |-> src]
    ELSE With(CallRNGTimes(src, count), LAMBDA d :
           [positions |-> SortAscending([i \in 1..count |-> d.values[i]]), src |-> d.src])

\* getPositions(count, distribution, rng): [positions, src]
getPositions(count, distribution, src) ==
    IF distribution = "even"
    THEN [positions |-> [i \in 1..count |-> Div(FP(i), FP(count + 1))], src |-> src]
    ELSE IF distribution = "weighted-center"
    THEN With(CallRNGTimes(src, count), LAMBDA d :
           [positions |->
              SortAscending(
                [i \in 1..count |->
                   With(Add(Tenths(5), Mul(Sub(d.values[i], Tenths(5)), Tenths(6))),
                        LAMBDA centered : MathMax(Tenths(1), MathMin(Tenths(9), centered)))]),
            src |-> d.src])
    ELSE With(CallRNGTimes(src, count), LAMBDA d :
           [positions |->
              SortAscending([i \in 1..count |-> Add(Tenths(1), Mul(d.values[i], Tenths(8)))]),
            src |-> d.src])

\* a variant of generateEdgePoints past its early return that draws the
\* offsets of the points before the positions
displacedEdgePointsOffsetsFirst(start, end, edgeOptions, src) ==
    With(CallRNGTimes(src, edgeOptions.points), LAMBDA d :
    With(getPositions(edgeOptions.points, edgeOptions.distribution, d.src), LAMBDA p :
    With([x |-> Sub(end.x, start.x), y |-> Sub(end.y, start.y)], LAMBDA edgeVector :
    With(Hypot(edgeVector.x, edgeVector.y), LAMBDA edgeLength :
    With([x |-> Div(Neg(edgeVector.y), edgeLength),
          y |-> Div(edgeVector.x, edgeLength)], LAMBDA perpendicular :
      [points |->
         [i \in 1..Len(p.positions) |->
            LET t == p.positions[i]
                offset == randomInRange(d.values[i], Neg(edgeOptions.deviation),
                                        edgeOptions.deviation)
            IN Point(Add(Add(start.x, Mul(t, edgeVector.x)), Mul(offset, perpendicular.x)),
                     Add(Add(start.y, Mul(t, edgeVector.y)), Mul(offset, perpendicular.y)),
                     EdgeSlot)],
       positions |-> p.positions,
       src |-> p.src])))))

\* generateEdgePoints past its early return (edges.js lines 24-56):
\* [points, positions, src]
\* (positions is history: the t of each point, in the order the points are emitted)
displacedEdgePoints(start, end, edgeOptions, src) ==
    With(getPositions(edgeOptions.points, edgeOptions.distribution, src), LAMBDA p :
    With([x |-> Sub(end.x, start.x), y |-> Sub(end.y, start.y)], LAMBDA edgeVector :
    With(Hypot(edgeVector.x, edgeVector.y), LAMBDA edgeLength :
    With([x |-> Div(Neg(edgeVector.y), edgeLength),
          y |-> Div(edgeVector.x, edgeLength)], LAMBDA perpendicular :
    With(CallRNGTimes(p.src, Len(p.positions)), LAMBDA d :
      [points |->
         [i \in 1..Len(p.positions) |->
            LET t == p.positions[i]
                pointOnLine == [x |-> Add(start.x, Mul(t, edgeVector.x)),
                                y |-> Add(start.y, Mul(t, edgeVector.y))]
                offset == randomInRange(d.values[i], Neg(edgeOptions.deviation),
                                        edgeOptions.deviation)
            IN Point(Add(pointOnLine.x, Mul(offset, perpendicular.x)),
                     Add(pointOnLine.y, Mul(offset, perpendicular.y)),
                     EdgeSlot)],
       positions |-> p.positions,
       src |-> d.src])))))

\* a variant of generateEdgePoints whose early return tests only `points <= 0`
generateEdgePointsNoDeviationTest(start, end, edgeOptions, src) ==
    IF edgeOptions.points <= 0
    THEN [points |-> <<>>, positions |-> <<>>, src |-> src]
    ELSE displacedEdgePoints(start, end, edgeOptions, src)

\* generateEdgePoints(start, end, edgeOptions, rng): [points, positions, src]
generateEdgePoints(start, end, edgeOptions, src) ==
    IF edgeOptions.points <= 0 \/ edgeOptions.deviation = 0
    THEN [points |-> <<>>, positions |-> <<>>, src |-> src]
    ELSE displacedEdgePoints(start, end, edgeOptions, src)

RECURSIVE EdgeLoop(_, _, _, _)
\* the loop of insertEdgePoints from corner index i (0-based) on
EdgeLoop(cs, edgeOptions, src, i) ==
    IF i >= Len(cs) THEN [polygon |-> <<>>, positions |-> <<>>, src |-> src]
    ELSE LET start == cs[i + 1]
             end == cs[((i + 1) % Len(cs)) + 1]
         IN With(generateEdgePoints(start, end, edgeOptions, src), LAMBDA e :
            With(EdgeLoop(cs, edgeOptions, e.src, i + 1), LAMBDA rest :
              [polygon |-> <<start>> \o e.points \o rest.polygon,
               positions |-> <<e.positions>> \o rest.positions,
               src |-> rest.src]))

\* a variant of insertEdgePoints whose loop starts at the second corner
insertEdgePointsFromSecond(cs, edgeOptions, src) ==
    IF edgeOptions.points <= 0
    THEN [polygon |-> cs, positions |-> <<>>, src |-> src]
    ELSE EdgeLoop(cs, edgeOptions, src, 1)

\* insertEdgePoints(corners, edgeOptions, rng): [polygon, positions, src]
insertEdgePoints(cs, edgeOptions, src) ==
    IF edgeOptions.points <= 0
    THEN [polygon |-> cs, positions |-> <<>>, src |-> src]
    ELSE EdgeLoop(cs, edgeOptions, src, 0)

---------------------------------------------------------------------------
(* core/polygon.js *)

\* available.splice(k, 1), k 0-based
Splice(s, k) == SubSeq(s, 1, k) \o SubSeq(s, k + 2, Len(s))

RECURSIVE SelectLoopNoSplice(_, _, _, _)
\* a variant of the loop that leaves the index drawn in `available`
SelectLoopNoSplice(available, selected, src, n) ==
    IF n <= 0 THEN [selected |-> selected, src |-> src]
    ELSE With(CallRNG(src), LAMBDA c :
         With((c.value * Len(available)) \div Scale, LAMBDA randomIndex :
           SelectLoopNoSplice(available,
                              selected \cup {available[randomIndex + 1]}, c.src, n - 1)))

RECURSIVE SelectLoop(_, _, _, _)
\* the loop of selectCornersToCut with n iterations left
SelectLoop(available, selected, src, n) ==
    IF n <= 0 THEN [selected |-> selected, src |-> src]
    ELSE With(CallRNG(src), LAMBDA c :
         With((c.value * Len(available)) \div Scale, LAMBDA randomIndex :
           SelectLoop(Splice(available, randomIndex),
                      selected \cup {available[randomIndex + 1]}, c.src, n - 1)))

\* selectCornersToCut(count, rng): [selected, src]
selectCornersToCut(count, src) ==
    IF count <= 0 THEN [selected |-> {}, src |-> src]
    ELSE IF count >= 4 THEN [selected |-> {0, 1, 2, 3}, src |-> src]
    ELSE SelectLoop(<<0, 1, 2, 3>>, {}, src, count)

\* a destructuring default: `name = dflt` takes dflt when the property is undefined
Default(v, dflt) == IF v = Undefined THEN dflt ELSE v

\* a ?? b
Coalesce(a, b) == IF a = Undefined \/ a = Null THEN b ELSE a

RECURSIVE FullCutFrom(_, _, _, _)
\* polygon.filter((_, index) => ...) of the full cut, from position j on
\* (index = j - 1 is the 0-based index of the callback)
FullCutFrom(poly, stride, cut, j) ==
    IF j > Len(poly) THEN <<>>
    ELSE LET index == j - 1
             cornerIndex == index \div stride
             isCornerPoint == index % stride = 0
         IN (IF ~(isCornerPoint /\ cornerIndex \in cut) THEN <<poly[j]>> ELSE <<>>)
            \o FullCutFrom(poly, stride, cut, j + 1)

\* a variant of the full cut that drops every corner slot, selected or not
FullCutEveryCorner(poly, stride, cut) == FullCutFrom(poly, stride, {0, 1, 2, 3}, 1)

\* the full cut (polygon.js lines 63-69)
FullCut(poly, stride, cut) == FullCutFrom(poly, stride, cut, 1)

\* the partial inset (polygon.js lines 70-97)
PartialInset(poly, stride, cut, inset) ==
    [j \in 1..Len(poly) |->
        LET index == j - 1
            cornerIndex == index \div stride
            isCornerPoint == index % stride = 0
        IN IF isCornerPoint /\ cornerIndex \in cut
           THEN LET prevIndex == (index - 1 + Len(poly)) % Len(poly)
                    nextIndex == (index + 1) % Len(poly)
                    prevPoint == poly[prevIndex + 1]
                    nextPoint == poly[nextIndex + 1]
                    midpoint == [x |-> Div(Add(prevPoint.x, nextPoint.x), FP(2)),
                                 y |-> Div(Add(prevPoint.y, nextPoint.y), FP(2))]
                IN Point(Add(poly[j].x, Mul(Sub(midpoint.x, poly[j].x), inset)),
                         Add(poly[j].y, Mul(Sub(midpoint.y, poly[j].y), inset)),
                         poly[j].slot)
           ELSE poly[j]]

\* a variant of the corner cutting whose second test is `inset !== 0`
cutCornersStepNonZero(poly, options, src) ==
    IF options.cutCorners > 0
    THEN With(selectCornersToCut(options.cutCorners, src), LAMBDA sel :
           With(Coalesce(Default(options.cornerInset, Num(FP(1))), Num(FP(1))).v, LAMBDA inset :
             [polygon |->
                IF inset >= FP(1) THEN FullCut(poly, options.edges.points + 1, sel.selected)
                ELSE IF inset # 0
                THEN PartialInset(poly, options.edges.points + 1, sel.selected, inset)
                ELSE poly,
              cornersToCut |-> sel.selected,
              src |-> sel.src]))
    ELSE [polygon |-> poly, cornersToCut |-> {}, src |-> src]

\* the corner cutting of generatePolygon (polygon.js lines 57-99):
\* [polygon, cornersToCut, src]
cutCornersStep(poly, options, src) ==
    LET cutCorners == options.cutCorners
        cornerInset == Default(options.cornerInset, Num(FP(1)))
    IN IF cutCorners > 0
       THEN LET pointsPerEdge == options.edges.points
                stride == pointsPerEdge + 1
                inset == Coalesce(cornerInset, Num(FP(1))).v
            IN With(selectCornersToCut(cutCorners, src), LAMBDA sel :
                 [polygon |->
                    IF inset >= FP(1) THEN FullCut(poly, stride, sel.selected)
                    ELSE IF inset > 0 THEN PartialInset(poly, stride, sel.selected, inset)
                    ELSE poly,
                  cornersToCut |-> sel.selected,
                  src |-> sel.src])
       ELSE [polygon |-> poly, cornersToCut |-> {}, src |-> src]

---------------------------------------------------------------------------
(* The arguments tried *)

Distributions == {"random", "even", "weighted-center"}

\* width and height, in whole units
Dims == {<<8, 6>>, <<4, 4>>, <<3, 2>>, <<0, 6>>, <<8, 0>>}

\* options.corners (offsets in whole units)
CornerOptions ==
    {[x |-> 0, y |-> 0, independent |-> b] : b \in BOOLEAN}
    \cup {[x |-> FP(o[1]), y |-> FP(o[2]), independent |-> b] :
            o \in {<<2, 2>>, <<9, 0>>}, b \in BOOLEAN}

\* options.edges
EdgeOptions ==
    {[points |-> 0, deviation |-> d, distribution |-> "random"] : d \in {0, FP(3)}}
    \cup {[points |-> n, deviation |-> 0, distribution |-> "random"] : n \in 1..MaxPoints}
    \cup {[points |-> n, deviation |-> FP(3), distribution |-> d] :
            n \in 1..MaxPoints, d \in Distributions}

\* cutCorners with the chamfer amount, under the documented name (cornerChamfer)
\* and under the name polygon.js reads (cornerInset)
NoCut == [cutCorners |-> 0, cornerChamfer |-> Undefined, cornerInset |-> Undefined]
CutOptions ==
    {[cutCorners |-> k, cornerChamfer |-> c[1], cornerInset |-> c[2]] :
        k \in 1..4,
        c \in {<<Undefined, Undefined>>, <<Num(FP(1)), Undefined>>,
               <<Num(Tenths(5)), Undefined>>, <<Undefined, Num(Tenths(5))>>,
               <<Undefined, Num(0)>>}}

Seeds == {Null} \cup {Num(v) : v \in SeedValues}

\* build: the build whose generatePolygon is called, "src" (the module tree)
\* or "dist" (dist/wabi.esm.js)
Arguments(dim, c, e, k, seed) ==
    [width |-> FP(dim[1]), height |-> FP(dim[2]), build |-> "src",
     options |-> [corners |-> c, edges |-> e, cutCorners |-> k.cutCorners,
                  cornerChamfer |-> k.cornerChamfer, cornerInset |-> k.cornerInset,
                  seed |-> seed]]

\* corner displacement: every size and corner configuration
CornerArguments ==
    {Arguments(dim, c, e, NoCut, seed) :
        dim \in {d \in Dims : d[1] > 0 /\ d[2] > 0}, c \in CornerOptions,
        e \in {x \in EdgeOptions : x.points = 0 /\ x.deviation = 0}, seed \in Seeds}

\* edge insertion: every edge configuration, on the full and the degenerate sizes
EdgeArguments ==
    {Arguments(dim, c, e, NoCut, seed) :
        dim \in {<<8, 6>>, <<0, 6>>, <<8, 0>>},
        c \in {x \in CornerOptions : x.independent /\ x.y = x.x},
        e \in EdgeOptions, seed \in Seeds}

\* corner cutting: every cut configuration on one size
CutArguments ==
    {Arguments(<<8, 6>>, c, e, k, seed) :
        c \in {x \in CornerOptions : x.independent /\ x.y = x.x},
        e \in {x \in EdgeOptions : x.distribution # "weighted-center"},
        k \in CutOptions, seed \in {Num(0), Num(1)}}

\* cut parameters outside their range: cutCorners above 4 and below 0, the
\* chamfer amount above 1 and below 0 (under both names)
RangeCutOptions ==
    {[cutCorners |-> k, cornerChamfer |-> Undefined, cornerInset |-> Undefined] :
        k \in {5, 0 - 1}}
    \cup {[cutCorners |-> 2, cornerChamfer |-> c[1], cornerInset |-> c[2]] :
        c \in {<<Num(FP(2)), Undefined>>, <<Undefined, Num(FP(2))>>,
               <<Num(Neg(Tenths(5))), Undefined>>, <<Undefined, Num(Neg(Tenths(5)))>>}}

RangeArguments ==
    {Arguments(<<8, 6>>, c, e, k, seed) :
        c \in {x \in CornerOptions : x.independent /\ x.y = x.x},
        e \in {x \in EdgeOptions : x.distribution = "random" /\ x.points <= 1},
        k \in RangeCutOptions, seed \in {Num(0), Num(1)}}

\* a negative corner offset on an axis, and a negative edges.deviation
NegativeArguments ==
    {Arguments(<<8, 6>>, [x |-> FP(o[1]), y |-> FP(o[2]), independent |-> b],
               [points |-> 0, deviation |-> 0, distribution |-> "random"], NoCut, seed) :
        o \in {<<0 - 2, 0>>, <<0, 0 - 2>>}, b \in BOOLEAN, seed \in {Num(0), Num(1)}}
    \cup {Arguments(<<8, 6>>, [x |-> 0, y |-> 0, independent |-> TRUE],
                    [points |-> n, deviation |-> FP(0 - 3), distribution |-> d], NoCut, seed) :
        n \in 1..MaxPoints, d \in {"random", "even"}, seed \in {Num(0), Num(1)}}

\* defaultOptions of dist/wabi.esm.js (lines 355-373), the fields the
\* generator reads
defaultOptionsDist ==
    [corners |-> [x |-> FP(5), y |-> FP(4), independent |-> TRUE],
     edges |-> [points |-> 0, edgeWobble |-> FP(3), distribution |-> "random"],
     cutCorners |-> 0, cornerChamfer |-> Num(FP(1)), seed |-> Null]

\* mergeOptions of dist/wabi.esm.js (lines 379-413) for user options that
\* give corners {x, y}, edges {points, deviation} (the documented names) and
\* seed: the spread keeps every property of both objects
mergeOptionsDist(userOptions) ==
    [corners |-> [x |-> userOptions.corners.x, y |-> userOptions.corners.y,
                  independent |-> defaultOptionsDist.corners.independent],
     edges |-> [points |-> userOptions.edges.points,
                edgeWobble |-> defaultOptionsDist.edges.edgeWobble,
                distribution |-> defaultOptionsDist.edges.distribution,
                deviation |-> userOptions.edges.deviation],
     cutCorners |-> defaultOptionsDist.cutCorners,
     cornerChamfer |-> defaultOptionsDist.cornerChamfer,
     cornerInset |-> Undefined,
     seed |-> IF userOptions.seed # Undefined THEN userOptions.seed
              ELSE defaultOptionsDist.seed]

\* user configurations given to the dist build
DistUserOptions ==
    {[corners |-> [x |-> FP(o), y |-> FP(o)], edges |-> [points |-> n, deviation |-> d],
      seed |-> seed] :
        o \in {0, 2}, n \in 1..MaxPoints, d \in {0, FP(1)}, seed \in {Num(0), Num(1)}}

\* the dist build: generatePolygon(width, height, mergeOptions(userOptions))
DistArguments ==
    {[width |-> FP(8), height |-> FP(6), build |-> "dist",
      options |-> mergeOptionsDist(u)] : u \in DistUserOptions}

FirstArguments ==
    CornerArguments \cup EdgeArguments \cup CutArguments \cup RangeArguments
    \cup NegativeArguments \cup DistArguments

Partial(c) == c # Undefined /\ c # Null /\ c.v > 0 /\ c.v < FP(1)

\* an optional number brought to the nearest value of lo..hi
ClampNum(v, lo, hi) ==
    IF v = Undefined \/ v = Null THEN v ELSE Num(MathMax(lo, MathMin(hi, v.v)))

\* the arguments with the cut parameters brought to the nearest valid value:
\* cutCorners to 0..4, the chamfer amount to [0, 1]
ClampedArguments(a) ==
    [a EXCEPT !.options.cutCorners = MathMax(0, MathMin(4, @)),
              !.options.cornerChamfer = ClampNum(@, 0, FP(1)),
              !.options.cornerInset = ClampNum(@, 0, FP(1))]

\* another seed than the given one
OtherSeed(seed) == IF seed = Num(0) THEN Num(1) ELSE Num(0)

\* the second call: the same arguments; for a partial chamfer also the same
\* but for cutCorners = 0; for cut parameters out of range the same with the
\* nearest valid values; for a seeded call also the same with another seed
SecondArguments(a) ==
    {a} \cup (IF Partial(a.options.cornerChamfer)
              THEN {[a EXCEPT !.options.cutCorners = 0]} ELSE {})
        \cup {ClampedArguments(a)}
        \cup (IF a.options.seed # Null
              THEN {[a EXCEPT !.options.seed = OtherSeed(@)]} ELSE {})

---------------------------------------------------------------------------
(* generatePolygon(width, height, options), polygon.js lines 38-102 *)

Init ==
    /\ \E a \in FirstArguments :
         \E b \in SecondArguments(a) : args = [i \in Inv |-> IF i = 1 THEN a ELSE b]
    /\ pc = [i \in Inv |-> "call"]
    /\ rng = [i \in Inv |-> NoRNG]
    /\ mathRandom \in (IF args[1].options.seed = Null THEN EngineStates ELSE {Word(0, 0)})
    /\ corners = [i \in Inv |-> <<>>]
    /\ polygon = [i \in Inv |-> <<>>]
    /\ cornersToCut = [i \in Inv |-> {}]
    /\ positions = [i \in Inv |-> <<>>]
    /\ original = [t |-> "string", v |-> ""]
    /\ calls = <<>>
    /\ thrown = Null
    /\ generator = NoRNG
    /\ wrapped = Word(0, 0)
    /\ returned = Null
    /\ applied = Null
    /\ element = [clipPath |-> original, parentNode |-> "page", position |-> "static",
                  offsetWidth |-> 0, offsetHeight |-> 0, instance |-> 0]
    /\ instances = [k \in Ids |-> Null]
    /\ controls = [c \in Ids |-> Null]
    /\ loop = [items |-> <<>>, isRunning |-> FALSE, frameId |-> FALSE]
    /\ wrappers = Null
    /\ resize = [observing |-> FALSE, lastReported |-> <<0, 0>>, callback |-> Undefined,
                 timeoutId |-> FALSE]

\* the options as the destructuring of the build reads them: the src tree
\* reads edges.deviation (edges.js line 15) and cornerInset (polygon.js line
\* 43), the dist build reads edges.edgeWobble (line 133) and cornerChamfer
\* (line 291)
ReadOptions(a) ==
    IF a.build = "dist"
    THEN [a.options EXCEPT
            !.edges = [points |-> @.points, deviation |-> @.edgeWobble,
                       distribution |-> @.distribution],
            !.cornerInset = a.options.cornerChamfer]
    ELSE a.options

\* lines 39-51: the destructuring, getRNG and generateCorners
GenerateCorners(i) ==
    /\ pc[i] = "call"
    /\ \E g \in {generateCorners(args[i].width, args[i].height, args[i].options.corners,
                                  Source(getRNG(Default(args[i].options.seed, Null)),
                                         mathRandom))} :
          /\ corners' = [corners EXCEPT ![i] = g.corners]
          /\ rng' = [rng EXCEPT ![i] = g.src.rng]
          /\ mathRandom' = g.src.engine
    /\ pc' = [pc EXCEPT ![i] = "edges"]
    /\ UNCHANGED <<args, polygon, cornersToCut, positions, domVars, rngVars, fnVars>>

\* line 54: insertEdgePoints
InsertEdgePoints(i) ==
    /\ pc[i] = "edges"
    /\ \E e \in {insertEdgePoints(corners[i], ReadOptions(args[i]).edges,
                                   Source(rng[i], mathRandom))} :
          /\ polygon' = [polygon EXCEPT ![i] = e.polygon]
          /\ positions' = [positions EXCEPT ![i] = e.positions]
          /\ rng' = [rng EXCEPT ![i] = e.src.rng]
          /\ mathRandom' = e.src.engine
    /\ pc' = [pc EXCEPT ![i] = "cut"]
    /\ UNCHANGED <<args, corners, cornersToCut, domVars, rngVars, fnVars>>

\* lines 57-101: the corner cutting and the return
CutCorners(i) ==
    /\ pc[i] = "cut"
    /\ \E c \in {cutCornersStep(polygon[i], ReadOptions(args[i]), Source(rng[i], mathRandom))} :
          /\ polygon' = [polygon EXCEPT ![i] = c.polygon]
          /\ cornersToCut' = [cornersToCut EXCEPT ![i] = c.cornersToCut]
          /\ rng' = [rng EXCEPT ![i] = c.src.rng]
          /\ mathRandom' = c.src.engine
    /\ pc' = [pc EXCEPT ![i] = "done"]
    /\ UNCHANGED <<args, corners, positions, domVars, rngVars, fnVars>>

\* generatePolygon(width, height, options) run from its first line to its
\* return with the engine in state e: [polygon, rng]
generatePolygon(a, e) ==
    With(generateCorners(a.width, a.height, a.options.corners,
                         Source(getRNG(Default(a.options.seed, Null)), e)), LAMBDA g :
    With(insertEdgePoints(g.corners, ReadOptions(a).edges, g.src), LAMBDA p :
    With(cutCornersStep(p.polygon, ReadOptions(a), p.src), LAMBDA c :
      [polygon |-> c.polygon, rng |-> c.src.rng])))

Next == \E i \in Inv : GenerateCorners(i) \/ InsertEdgePoints(i) \/ CutCorners(i)

Spec == Init /\ [][Next]_vars

---------------------------------------------------------------------------
(* Observations on a run *)

Done(i) == pc[i] = "done"
CornersMade(i) == pc[i] # "call"
Options(i) == args[i].options
\* call i is a call of the src tree's generatePolygon
Src(i) == args[i].build = "src"
N(i) == Options(i).edges.points
Deviation(i) == Options(i).edges.deviation

\* the configuration asks for a full cut in the documented terms: cornerChamfer
\* is 1 or left to its default of 1, and cornerInset is not passed
FullCutRequested(i) ==
    /\ Default(Options(i).cornerChamfer, Num(FP(1))) = Num(FP(1))
    /\ Options(i).cornerInset = Undefined

HasNaN(poly) == \E j \in DOMAIN poly : poly[j].x = NaN \/ poly[j].y = NaN

RECURSIVE NonDecreasing(_)
NonDecreasing(s) ==
    IF Len(s) <= 1 THEN TRUE ELSE s[1] <= s[2] /\ NonDecreasing(Tail(s))

\* the corners TL, TR, BR, BL of call i
TL(i) == corners[i][1]
TR(i) == corners[i][2]
BR(i) == corners[i][3]
BL(i) == corners[i][4]

NotInverted(i) ==
    /\ TL(i).x <= TR(i).x
    /\ BL(i).x <= BR(i).x
    /\ TL(i).y <= BL(i).y
    /\ TR(i).y <= BR(i).y

---------------------------------------------------------------------------
(* Claims *)

\* C1: two calls of generatePolygon with the same arguments and a non-null
\* seed return the same point sequence (same length, same coordinates, same
\* order), and every non-null seed, 0 and a negative seed included, makes
\* the seeded generator and not Math.random.
C1_SeededCallsAgree ==
    /\ \A i \in Inv, j \in Inv :
         (Done(i) /\ Done(j) /\ args[i] = args[j] /\ Options(i).seed # Null)
            => polygon[i] = polygon[j]
    /\ \A i \in Inv :
         (CornersMade(i) /\ Options(i).seed # Null) => rng[i].kind = "seeded"

\* C1, its case: both calls returned, seed 0, corners displaced and edge points
\* inserted with draws from the generator
C1_Witness ==
    /\ Done(1) /\ Done(2) /\ args[1] = args[2]
    /\ Options(1).seed = Num(0)
    /\ rng[1].calls > 8
    /\ Len(polygon[1]) > 4
    /\ corners[1] # baseCorners(args[1].width, args[1].height)

\* C2 as stated (for the src tree): with cutCorners = 0 the result has 4 + 4*N points for every
\* deviation >= 0, 0 included.
C2_Stated ==
    \A i \in Inv :
        (Done(i) /\ Src(i) /\ Options(i).cutCorners = 0) => Len(polygon[i]) = 4 + 4 * N(i)

\* C2 amended (for the src tree): with cutCorners = 0 the result has 4 + 4*N points when
\* deviation is not 0, and has the 4 corners alone when deviation is 0.
C2_PointCount ==
    \A i \in Inv :
        (Done(i) /\ Src(i) /\ Options(i).cutCorners = 0)
            => Len(polygon[i]) = (IF Deviation(i) # 0 THEN 4 + 4 * N(i) ELSE 4)

\* C2, its case: a call without cut that inserted two points on each edge
C2_Witness ==
    \E i \in Inv :
        /\ Done(i) /\ Options(i).cutCorners = 0
        /\ N(i) = 2 /\ Deviation(i) # 0
        /\ Len(polygon[i]) = 12

\* C3 as stated: with a full cut of k corners, k in 1..4, the result has
\* 4 + 4*N - k points for every deviation >= 0.
C3_Stated ==
    \A i \in Inv :
        (Done(i) /\ Options(i).cutCorners \in 1..4 /\ FullCutRequested(i))
            => Len(polygon[i]) = 4 + 4 * N(i) - Options(i).cutCorners

\* C3 amended: with a full cut of k corners, k in 1..4, the result has
\* 4 + 4*N - k points when N = 0 or deviation is not 0.
C3_FullCutCount ==
    \A i \in Inv :
        (Done(i) /\ Options(i).cutCorners \in 1..4 /\ FullCutRequested(i)
         /\ (N(i) = 0 \/ Deviation(i) # 0))
            => Len(polygon[i]) = 4 + 4 * N(i) - Options(i).cutCorners

\* C3, its case: cornerChamfer 1, two of the corners cut, two points per edge
C3_Witness ==
    \E i \in Inv :
        /\ Done(i) /\ Options(i).cutCorners = 2
        /\ Options(i).cornerChamfer = Num(FP(1)) /\ Options(i).cornerInset = Undefined
        /\ N(i) = 2 /\ Deviation(i) # 0
        /\ Cardinality(cornersToCut[i]) = 2
        /\ Len(polygon[i]) = 10

\* C4 as stated: a call that passes cornerChamfer strictly between 0 and 1 and
\* cutCorners = k in 1..4 returns as many points as the call with cutCorners = 0
\* and the otherwise identical configuration.
C4_Stated ==
    (/\ Done(1) /\ Done(2)
     /\ Partial(Options(1).cornerChamfer)
     /\ Options(1).cutCorners \in 1..4
     /\ args[2] = [args[1] EXCEPT !.options.cutCorners = 0])
        => Len(polygon[1]) = Len(polygon[2])

\* C5: for W, H > 0 the corners generateCorners returns lie in the clamp
\* bands: TL and BL have x in [0, 2*offsetX], TR and BR have x in
\* [W - 2*offsetX, W], TL and TR have y in [0, 2*offsetY], BR and BL have y in
\* [H - 2*offsetY, H].
C5_ClampBands ==
    \A i \in Inv :
        (/\ CornersMade(i) /\ args[i].width > 0 /\ args[i].height > 0
         /\ Options(i).corners.x >= 0 /\ Options(i).corners.y >= 0)
            => LET W == args[i].width
                   H == args[i].height
                   ox == Options(i).corners.x
                   oy == Options(i).corners.y
               IN /\ \A c \in {TL(i), BL(i)} : 0 <= c.x /\ c.x <= 2 * ox
                  /\ \A c \in {TR(i), BR(i)} : W - 2 * ox <= c.x /\ c.x <= W
                  /\ \A c \in {TL(i), TR(i)} : 0 <= c.y /\ c.y <= 2 * oy
                  /\ \A c \in {BR(i), BL(i)} : H - 2 * oy <= c.y /\ c.y <= H

\* C5, its case: independent displacement, with one corner held at the box
\* by the clamp and another displaced inside its band
C5_Witness ==
    \E i \in Inv :
        /\ CornersMade(i) /\ args[i].width > 0 /\ args[i].height > 0
        /\ Options(i).corners.x > 0 /\ Options(i).corners.independent
        /\ rng[i].calls = 8
        /\ \E c \in {TL(i), BL(i)} : c.x = 0
        /\ \E c \in {TL(i), BL(i)} : c.x > 0

\* C6 as stated: for W, H > 0 and every offset, offsets larger than half the
\* dimension included, the corners are not inverted: TL.x <= TR.x,
\* BL.x <= BR.x, TL.y <= BL.y and TR.y <= BR.y.
C6_Stated ==
    \A i \in Inv :
        (/\ CornersMade(i) /\ args[i].width > 0 /\ args[i].height > 0
         /\ Options(i).corners.x >= 0 /\ Options(i).corners.y >= 0)
            => NotInverted(i)

\* C6 amended: for W, H > 0 and offsets of at most half the dimension
\* (2*offsetX <= W and 2*offsetY <= H) the corners are not inverted.
C6_NotInvertedUpToHalf ==
    \A i \in Inv :
        (/\ CornersMade(i) /\ args[i].width > 0 /\ args[i].height > 0
         /\ Options(i).corners.x >= 0 /\ Options(i).corners.y >= 0
         /\ 2 * Options(i).corners.x <= args[i].width
         /\ 2 * Options(i).corners.y <= args[i].height)
            => NotInverted(i)

\* C6, its case: offsets of exactly half the dimension, every corner displaced
\* on its own
C6_Witness ==
    \E i \in Inv :
        /\ CornersMade(i)
        /\ Options(i).corners.x > 0 /\ Options(i).corners.independent
        /\ 2 * Options(i).corners.x = args[i].width
        /\ 2 * Options(i).corners.y = args[i].height
        /\ rng[i].calls = 8
        /\ TL(i).x > 0 /\ TR(i).x < args[i].width

\* C7 as stated: a call with width = 0 or height = 0 returns no point with a
\* NaN coordinate.
C7_Stated ==
    \A i \in Inv :
        (Done(i) /\ (args[i].width = 0 \/ args[i].height = 0)) => ~HasNaN(polygon[i])

\* C8 (for the src tree): when edges.points = 0 or edges.deviation = 0,
\* insertEdgePoints adds no point and draws nothing: the result is the
\* corners, and the generator and the engine's state after it are those
\* before it.
C8_NoInsertNoDraw ==
    [][\A i \in Inv :
          (/\ pc[i] = "edges" /\ pc'[i] = "cut" /\ Src(i)
           /\ (N(i) = 0 \/ Deviation(i) = 0))
             => /\ polygon'[i] = corners[i]
                /\ rng'[i] = rng[i]
                /\ mathRandom' = mathRandom]_vars

\* C8, its case: edge insertion has run with points > 0 and deviation = 0,
\* after the corner generator had drawn from the generator
C8_Witness ==
    \E i \in Inv :
        /\ pc[i] = "cut"
        /\ N(i) > 0 /\ Deviation(i) = 0
        /\ rng[i].calls = 8
        /\ polygon[i] = corners[i]

\* C9: for the distributions random and weighted-center the positions t of
\* the points of one edge are non-decreasing in the order the points are
\* emitted.
C9_PositionsAscend ==
    \A i \in Inv :
        Options(i).edges.distribution \in {"random", "weighted-center"}
            => \A e \in DOMAIN positions[i] : NonDecreasing(positions[i][e])

\* C9, its case: two points on an edge, weighted-center, at different positions
C9_Witness ==
    \E i \in Inv :
        /\ pc[i] \in {"cut", "done"}
        /\ Options(i).edges.distribution = "weighted-center"
        /\ Len(positions[i]) = 4
        /\ Len(positions[i][1]) = 2
        /\ positions[i][1][1] < positions[i][1][2]

\* C10 as stated: with cutCorners = 4 and a full cut, on any base configuration,
\* no returned point is one of the four corner points: every returned point
\* was made by the edge inserter.
C10_Stated ==
    \A i \in Inv :
        (Done(i) /\ Options(i).cutCorners = 4 /\ FullCutRequested(i))
            => \A j \in DOMAIN polygon[i] : polygon[i][j].slot = EdgeSlot

Abs(a) == IF a < 0 THEN 0 - a ELSE a

\* the polygon point number k (1-based) of edge e (1..4) after edge insertion
\* with n points per edge
EdgePoint(i, e, k) == polygon[i][(e - 1) * (N(i) + 1) + 1 + k]

\* the coordinate along edge e of the rectangle (W, H) at position t
AlongEdge(e, t, W, H) ==
    IF e = 1 THEN Mul(t, W)
    ELSE IF e = 2 THEN Mul(t, H)
    ELSE IF e = 3 THEN W - Mul(t, W)
    ELSE H - Mul(t, H)

\* C11: with distribution even, corner offsets 0, N > 0 and D > 0, each edge
\* gets exactly N points at the positions i/(N+1), i = 1..N, in that order
\* (to the resolution of the numbers), the positions cost no draw (the edge
\* inserter draws once per point, for the offset), and on an edge of
\* non-zero length the along-edge coordinate of a point is that of its
\* position: the perpendicular offset does not move it along the edge.
C11_EvenPositions ==
    \A i \in Inv :
        (/\ pc[i] = "cut"
         /\ Options(i).edges.distribution = "even"
         /\ Options(i).corners.x = 0 /\ Options(i).corners.y = 0
         /\ N(i) > 0 /\ Deviation(i) > 0)
            => /\ Len(positions[i]) = 4
               /\ Len(polygon[i]) = 4 + 4 * N(i)
               /\ rng[i].calls = 4 * N(i)
               /\ \A e \in 1..4 :
                    /\ Len(positions[i][e]) = N(i)
                    /\ \A k \in 1..N(i) :
                         /\ 2 * Abs(positions[i][e][k] * (N(i) + 1) - FP(k)) <= N(i) + 1
                         /\ EdgePoint(i, e, k).slot = EdgeSlot
                         /\ (args[i].width > 0 /\ args[i].height > 0)
                              => (IF e \in {1, 3} THEN EdgePoint(i, e, k).x
                                  ELSE EdgePoint(i, e, k).y)
                                 = AlongEdge(e, positions[i][e][k],
                                             args[i].width, args[i].height)

\* C11, its case: two points per edge, even, on the undisplaced 8 by 6
\* rectangle, the two points of the top edge displaced off the edge
C11_Witness ==
    \E i \in Inv :
        /\ pc[i] = "cut"
        /\ Options(i).edges.distribution = "even"
        /\ Options(i).corners.x = 0 /\ Options(i).corners.y = 0
        /\ args[i].width = FP(8) /\ args[i].height = FP(6)
        /\ N(i) = 2 /\ Deviation(i) = FP(3)
        /\ positions[i][1][1] < positions[i][1][2]
        /\ EdgePoint(i, 1, 1).y # 0 /\ EdgePoint(i, 1, 2).y # 0

\* the coordinates of a point sequence, in order
Coordinates(poly) == [j \in DOMAIN poly |-> <<poly[j].x, poly[j].y>>]

\* [(0,0), (W,0), (W,H), (0,H)]
Rectangle(W, H) == << <<0, 0>>, <<W, 0>>, <<W, H>>, <<0, H>> >>

\* C12: when both corner offsets are zero generateCorners returns
\* [(0,0),(W,0),(W,H),(0,H)] and draws nothing, for every seed and for
\* independent true or false; with edges.points = 0 and cutCorners = 0 as
\* well, generatePolygon returns that rectangle.
C12_ZeroOffsets ==
    \A i \in Inv :
        (Options(i).corners.x = 0 /\ Options(i).corners.y = 0)
            => /\ CornersMade(i)
                    => Coordinates(corners[i]) = Rectangle(args[i].width, args[i].height)
               /\ pc[i] = "edges" => rng[i].calls = 0
               /\ (Done(i) /\ N(i) = 0 /\ Options(i).cutCorners = 0)
                    => /\ Coordinates(polygon[i]) = Rectangle(args[i].width, args[i].height)
                       /\ rng[i].calls = 0

\* C12, its case: a returned call with zero offsets, independent false, no
\* edge points and no cut, whose generator is Math.random
C12_Witness ==
    \E i \in Inv :
        /\ Done(i)
        /\ Options(i).corners.x = 0 /\ Options(i).corners.y = 0
        /\ ~Options(i).corners.independent
        /\ N(i) = 0 /\ Options(i).cutCorners = 0
        /\ Options(i).seed = Null /\ rng[i].kind = "Math.random"
        /\ args[i].width = FP(8)
        /\ Len(polygon[i]) = 4

\* a cut parameter of call i is outside its range
OutOfRange(i) == ClampedArguments(args[i]) # args[i]

\* C13: out-of-range cut parameters act as the nearest valid value and the
\* call returns: cutCorners > 4 gives the polygon of cutCorners = 4,
\* cutCorners < 0 that of cutCorners = 0, a chamfer amount > 1 that of 1 and
\* a chamfer amount < 0 that of 0 (call 2 has the arguments of call 1 with
\* the nearest valid values, and the same seed).
C13_OutOfRangeAsNearest ==
    (/\ OutOfRange(1) /\ args[2] = ClampedArguments(args[1])
     /\ Options(1).seed # Null)
        => /\ Done(1) \/ ENABLED (GenerateCorners(1) \/ InsertEdgePoints(1) \/ CutCorners(1))
           /\ (Done(1) /\ Done(2)) => polygon[1] = polygon[2]

\* C13, its case: both calls returned, the first with cornerInset below 0
\* and corners chosen for the cut, the second with cornerInset 0
C13_Witness ==
    /\ Done(1) /\ Done(2)
    /\ Options(1).cornerInset = Num(Neg(Tenths(5)))
    /\ Options(2).cornerInset = Num(0)
    /\ Options(1).cutCorners = 2 /\ Cardinality(cornersToCut[1]) = 2
    /\ N(1) = 1 /\ Deviation(1) # 0
    /\ Len(polygon[1]) = 8

\* C14 as stated: a negative edges.deviation acts as 0 (edge insertion adds
\* no point and draws nothing) and a negative corner offset on an axis acts
\* as 0 (the corners keep their base coordinate on that axis and stay inside
\* [0,W] x [0,H]).
C14_Stated ==
    \A i \in Inv :
        /\ (pc[i] = "cut" /\ Deviation(i) < 0
            /\ Options(i).corners.x = 0 /\ Options(i).corners.y = 0)
              => polygon[i] = corners[i] /\ rng[i].calls = 0
        /\ (CornersMade(i) /\ Options(i).corners.x < 0)
              => \A k \in 1..4 :
                    /\ corners[i][k].x = baseCorners(args[i].width, args[i].height)[k].x
                    /\ 0 <= corners[i][k].x /\ corners[i][k].x <= args[i].width
        /\ (CornersMade(i) /\ Options(i).corners.y < 0)
              => \A k \in 1..4 :
                    /\ corners[i][k].y = baseCorners(args[i].width, args[i].height)[k].y
                    /\ 0 <= corners[i][k].y /\ corners[i][k].y <= args[i].height

\* the inserted point p is within perpendicular distance D of the line
\* through start and end, to the resolution of the numbers (the cross product
\* of p - start with the edge vector is the distance times the edge length)
WithinOfLine(p, start, end, D) ==
    LET ex == end.x - start.x
        ey == end.y - start.y
        cross == (p.x - start.x) * ey - (p.y - start.y) * ex
    IN Abs(cross) <= (D + 3) * Hypot(ex, ey) + Scale

\* C15 as stated: for a user configuration edges: {points: N > 0,
\* deviation: D >= 0}, in the src tree and in the dist build after option
\* merging, every inserted edge point lies within perpendicular distance D of
\* the line through the two corners of its edge (edges of non-zero length).
C15_Stated ==
    \A i \in Inv :
        (pc[i] = "cut" /\ N(i) > 0 /\ Deviation(i) >= 0)
            => \A e \in DOMAIN positions[i] :
                 \A k \in DOMAIN positions[i][e] :
                    LET start == corners[i][e]
                        end == corners[i][(e % 4) + 1]
                    IN (start.x # end.x \/ start.y # end.y)
                         => WithinOfLine(EdgePoint(i, e, k), start, end, Deviation(i))

---------------------------------------------------------------------------
(* The DOM side: one element of the page and the control objects that      *)
(* wabi() returns for it                                                    *)
(*   core/Wabi.js          (src/unnamed/part_005, lines 135-378)            *)
(*   utils/resize.js       (src/unnamed/part_003)                           *)
(*   dom/ShadowManager.js  (src/src/dom/ShadowManager.js)                   *)
(*   anim/Loop.js          (src/src/anim/Loop.js)                           *)
(*   mergeOptions, parseShorthand (src/src/core/polygon.js, lines 107-191)  *)
(*                                                                          *)
(* JavaScript runs one handler at a time: every action below is one call    *)
(* of the public interface or one callback of the browser (a resize         *)
(* notification, a timer, an animation frame), run to its end.  The         *)
(* operators take the heap H (a record of the objects) and return the heap  *)
(* after the call.  The clip-path string written by update() is kept as the *)
(* inputs that determine it: the geometry options, the units, the element's *)
(* size and, without a seed, the draw of Math.random.                       *)

Str(s) == [t |-> "string", v |-> s]
Bool(b) == [t |-> "boolean", v |-> b]
\* an object with the own properties props (a function from names to values)
Obj(props) == [t |-> "object", props |-> props]
\* {}
NoProps == <<>>

\* typeof v
TypeOf(v) == IF v = Null THEN "object" ELSE v.t

\* the truthiness of v, as `if (v)`, `v || d` and `!v` test it
Truthy(v) ==
    CASE v.t = "undefined" -> FALSE
      [] v.t = "null" -> FALSE
      [] v.t = "boolean" -> v.v
      [] v.t = "number" -> v.v # 0 /\ v.v # NaN
      [] v.t = "string" -> v.v # ""
      [] OTHER -> TRUE

\* o.f for an object given by its properties: undefined when f is not one
Get(o, f) == IF f \in DOMAIN o THEN o[f] ELSE Undefined

\* the own properties an object spread `...v` copies
Props(v) == IF v.t = "object" THEN v.props ELSE NoProps

\* {...a, ...b}
Spread(a, b) ==
    [f \in (DOMAIN a) \cup (DOMAIN b) |-> IF f \in DOMAIN b THEN b[f] ELSE a[f]]

\* a || b
OrElse(a, b) == IF Truthy(a) THEN a ELSE b

\* defaultOptions, polygon.js lines 107-124
defaultOptions ==
    [corners |-> Obj([x |-> Num(FP(5)), y |-> Num(FP(4)), independent |-> Bool(TRUE)]),
     edges |-> Obj([points |-> Num(0), deviation |-> Num(FP(3)),
                    distribution |-> Str("random")]),
     cutCorners |-> Num(0),
     cornerInset |-> Num(FP(1)),
     shadow |-> Null,
     seed |-> Null,
     units |-> Str("%"),
     preserveOnResize |-> Bool(TRUE)]

\* a variant of mergeOptions that also copies wrapperClass
mergeOptionsKeepsWrapperClass(userOptions) ==
    [corners |-> Obj(Spread(defaultOptions.corners.props,
                            Props(OrElse(Get(userOptions, "corners"), Obj(NoProps))))),
     edges |-> Obj(Spread(defaultOptions.edges.props,
                          Props(OrElse(Get(userOptions, "edges"), Obj(NoProps))))),
     cutCorners |-> Default(Get(userOptions, "cutCorners"), defaultOptions.cutCorners),
     cornerInset |-> Default(Get(userOptions, "cornerInset"), defaultOptions.cornerInset),
     shadow |-> IF Get(userOptions, "shadow") = Bool(FALSE) THEN Bool(FALSE)
                ELSE IF Truthy(Get(userOptions, "shadow"))
                        /\ TypeOf(Get(userOptions, "shadow")) = "object"
                     THEN Get(userOptions, "shadow")
                     ELSE defaultOptions.shadow,
     seed |-> Default(Get(userOptions, "seed"), defaultOptions.seed),
     units |-> OrElse(Get(userOptions, "units"), defaultOptions.units),
     preserveOnResize |-> Default(Get(userOptions, "preserveOnResize"),
                                  defaultOptions.preserveOnResize),
     wrapperClass |-> Get(userOptions, "wrapperClass")]

\* mergeOptions(userOptions), polygon.js lines 131-165: the returned object
\* has these eight properties and no other
mergeOptions(userOptions) ==
    [corners |-> Obj(Spread(defaultOptions.corners.props,
                            Props(OrElse(Get(userOptions, "corners"), Obj(NoProps))))),
     edges |-> Obj(Spread(defaultOptions.edges.props,
                          Props(OrElse(Get(userOptions, "edges"), Obj(NoProps))))),
     cutCorners |-> Default(Get(userOptions, "cutCorners"), defaultOptions.cutCorners),
     cornerInset |-> Default(Get(userOptions, "cornerInset"), defaultOptions.cornerInset),
     shadow |-> IF Get(userOptions, "shadow") = Bool(FALSE) THEN Bool(FALSE)
                ELSE IF Truthy(Get(userOptions, "shadow"))
                        /\ TypeOf(Get(userOptions, "shadow")) = "object"
                     THEN Get(userOptions, "shadow")
                     ELSE defaultOptions.shadow,
     seed |-> Default(Get(userOptions, "seed"), defaultOptions.seed),
     units |-> OrElse(Get(userOptions, "units"), defaultOptions.units),
     preserveOnResize |-> Default(Get(userOptions, "preserveOnResize"),
                                  defaultOptions.preserveOnResize)]

\* a variant of parseShorthand that gives cornerX to both offsets, as its
\* two-argument branch does
parseShorthandXOnly(argv) ==
    IF Len(argv) >= 2 /\ TypeOf(argv[2]) = "number"
    THEN [corners |-> Obj([x |-> argv[2], y |-> argv[2]])]
    ELSE NoProps

\* parseShorthand(args), polygon.js lines 172-191; args[0] of the source is
\* argv[1] here
parseShorthand(argv) ==
    IF Len(argv) = 2 /\ TypeOf(argv[2]) = "number"
    THEN [corners |-> Obj([x |-> argv[2], y |-> argv[2]])]
    ELSE IF Len(argv) >= 3 /\ TypeOf(argv[2]) = "number" /\ TypeOf(argv[3]) = "number"
    THEN IF Len(argv) >= 4 /\ TypeOf(argv[4]) = "number"
         THEN [corners |-> Obj([x |-> argv[2], y |-> argv[3]]),
               edges |-> Obj([points |-> argv[4]])]
         ELSE [corners |-> Obj([x |-> argv[2], y |-> argv[3]])]
    ELSE NoProps

\* the options the Wabi constructor computes from its arguments after the
\* selector (part_005 lines 274-280); the array passed to parseShorthand has
\* always four entries
ConstructorOptions(a) ==
    IF TypeOf(a[1]) = "object" /\ a[1] # Null
    THEN mergeOptions(a[1].props)
    ELSE mergeOptions(parseShorthand(<<Str("#el"), a[1], a[2], a[3]>>))

---------------------------------------------------------------------------
(* The heap *)

\* the objects of the page, as the operators below pass them along
Heap ==
    [element |-> element, instances |-> instances, controls |-> controls,
     loop |-> loop, wrappers |-> wrappers, resize |-> resize]

\* the control objects created so far
Created == {c \in Ids : controls[c] # Null}

---------------------------------------------------------------------------
(* WabiElement, part_005 lines 144-264 *)

\* whether generatePolygon draws at all for these options: generateCorners
\* returns early for two zero offsets (part_008), generateEdgePoints for no
\* points or a zero deviation (part_005 line 17), selectCornersToCut draws for
\* 1 to 3 corners (polygon.js)
Draws(o) ==
    \/ o.corners.props.x # Num(0)
    \/ o.corners.props.y # Num(0)
    \/ /\ o.edges.props.points.t = "number"
       /\ o.edges.props.points.v # NaN
       /\ o.edges.props.points.v > 0
       /\ o.edges.props.deviation # Num(0)
    \/ o.cutCorners \in {Num(FP(1)), Num(FP(2)), Num(FP(3))}

\* whether the draws come from Math.random (getRNG, part_002 lines 31-36)
UsesMathRandom(o) == (o.seed = Null \/ o.seed = Undefined) /\ Draws(o)

\* generateClipPath(generatePolygon(...), units) of update(), lines 215-235
ClipPathOf(o, width, height, draw) ==
    [polygon |-> [corners |-> o.corners, edges |-> o.edges,
                  cutCorners |-> o.cutCorners, cornerInset |-> o.cornerInset,
                  seed |-> o.seed],
     units |-> o.units, width |-> width, height |-> height, draw |-> draw]

\* a variant of update() that writes nothing
updateSkipped(H, k) == H

\* the outcome of Math.random for the next polygon, as far as the clip-path
\* shows it: never the outcome seen in the clip-path the element has now
NextDraw(H) ==
    IF "draw" \in DOMAIN H.element.clipPath /\ H.element.clipPath.draw = 1 THEN 2 ELSE 1

\* update(), lines 214-243
update(H, k) ==
    [H EXCEPT
       !.element.clipPath =
           ClipPathOf(H.instances[k].options, H.element.offsetWidth,
                      H.element.offsetHeight,
                      IF UsesMathRandom(H.instances[k].options) THEN NextDraw(H) ELSE 0)]

\* generateDropShadow(shadowOptions), render/shadow.js lines 16-31
generateDropShadow(shadowOptions) ==
    IF ~Truthy(shadowOptions) \/ shadowOptions = Bool(FALSE) THEN Null
    ELSE [t |-> "string",
          x |-> Default(Get(Props(shadowOptions), "x"), Num(0)),
          y |-> Default(Get(Props(shadowOptions), "y"), Num(FP(4))),
          blur |-> Default(Get(Props(shadowOptions), "blur"), Num(FP(8))),
          color |-> Default(Get(Props(shadowOptions), "color"), Str("rgba(0,0,0,0.15)"))]

\* ShadowManager.wrap(element, dropShadow, options), ShadowManager.js lines
\* 17-51.  parentNode of the element is "page" (its place in the document),
\* "null" (no parent), "wrapper" (the wrapper of the wrappers map) or
\* "removed" (a wrapper that is no longer in the map).
wrap(H, dropShadow, options) ==
    IF H.element.position \in {"fixed", "absolute"} THEN H
    ELSE IF H.wrappers # Null
    THEN [H EXCEPT !.wrappers.filter = dropShadow]
    ELSE [H EXCEPT
            !.wrappers =
                [classList |-> {"wabi-shadow-wrapper"}
                               \cup (IF Truthy(Get(options, "wrapperClass"))
                                     THEN {Get(options, "wrapperClass").v} ELSE {}),
                 parentNode |-> H.element.parentNode,
                 filter |-> dropShadow],
            !.element.parentNode = "wrapper"]

\* ShadowManager.unwrap(element), lines 92-111
unwrap(H) ==
    IF H.wrappers = Null THEN H
    ELSE [H EXCEPT
            !.element.parentNode =
                IF H.wrappers.parentNode # "null" THEN H.wrappers.parentNode
                ELSE "removed",
            !.wrappers = Null]

\* updateShadow(), part_005 lines 205-212
updateShadow(H, k) ==
    IF generateDropShadow(H.instances[k].options.shadow) # Null
    THEN wrap(H, generateDropShadow(H.instances[k].options.shadow), H.instances[k].options)
    ELSE unwrap(H)

\* setupResizeObserver(element, callback, {bypassDebounceOnce}), part_003
\* lines 44-76: the conditionalCallback of WabiElement k, with its variable
\* hasCalledOnce, replaces the element's entry of resizeCallbacks; the timer
\* of the debounced callback is instances[k].timeoutId
setupResizeObserver(H, k, bypassDebounceOnce) ==
    [H EXCEPT !.resize.observing = TRUE,
              !.resize.lastReported = <<0, 0>>,
              !.resize.callback = [owner |-> k,
                                   bypassDebounceOnce |-> bypassDebounceOnce,
                                   hasCalledOnce |-> FALSE]]

\* the cleanup function setupResizeObserver returns, part_003 lines 72-75
resizeCleanup(H) ==
    [H EXCEPT !.resize.observing = FALSE, !.resize.callback = Undefined]

\* a variant of init() that sets the observer up only for preserveOnResize
initHonoursPreserveOnResize(H, k) ==
    With(IF H.instances[k].options.preserveOnResize = Bool(TRUE)
         THEN [setupResizeObserver(H, k, H.instances[k].isFirstRender)
                 EXCEPT !.instances[k].cleanups = <<"resizeCleanup">>]
         ELSE H,
         LAMBDA H1 :
           With(IF H1.element.offsetWidth > 1 /\ H1.element.offsetHeight > 1
                THEN [update(H1, k) EXCEPT !.instances[k].isFirstRender = FALSE]
                ELSE H1,
                LAMBDA H2 : updateShadow(H2, k)))

\* init(), lines 165-181
init(H, k) ==
    With([setupResizeObserver(H, k, H.instances[k].isFirstRender)
            EXCEPT !.instances[k].cleanups = <<"resizeCleanup">>],
         LAMBDA H1 :
           With(IF H1.element.offsetWidth > 1 /\ H1.element.offsetHeight > 1
                THEN [update(H1, k) EXCEPT !.instances[k].isFirstRender = FALSE]
                ELSE H1,
                LAMBDA H2 : updateShadow(H2, k)))

\* new WabiElement(element, options), lines 145-163
NewWabiElement(H, k, options) ==
    With([H EXCEPT !.instances[k] =
            [options |-> options,
             originalStart |-> [clipPath |-> H.element.clipPath],
             cleanups |-> <<>>,
             isFirstRender |-> TRUE,
             lastAspectRatio |-> 0,
             timeoutId |-> FALSE]],
         LAMBDA H1 : init(H1, k))

\* isFinite(a)
IsFinite(a) == a # NaN

\* element.offsetWidth / element.offsetHeight; the sizes of the model have a
\* zero height only with a zero width
AspectRatio(H) ==
    IF H.element.offsetHeight = 0 THEN NaN
    ELSE Div(FP(H.element.offsetWidth), FP(H.element.offsetHeight))

\* Math.abs(current - last) / last > 0.01, for last > 0
AspectChanged(current, lastRatio) ==
    /\ current # NaN
    /\ lastRatio > 0
    /\ 100 * Abs(current - lastRatio) > lastRatio

\* handleResize(), lines 183-203
handleResize(H, k) ==
    IF H.instances[k].options.units = Str("%")
    THEN IF /\ H.instances[k].lastAspectRatio = 0
            /\ IsFinite(AspectRatio(H))
            /\ AspectRatio(H) > 0
         THEN With([H EXCEPT !.instances[k].lastAspectRatio = AspectRatio(H),
                             !.instances[k].isFirstRender = FALSE],
                   LAMBDA H1 : update(H1, k))
         ELSE IF AspectChanged(AspectRatio(H), H.instances[k].lastAspectRatio)
         THEN With([H EXCEPT !.instances[k].lastAspectRatio = AspectRatio(H)],
                   LAMBDA H1 : update(H1, k))
         ELSE H
    ELSE IF H.instances[k].options.units = Str("px")
    THEN update(H, k)
    ELSE H

\* WabiElement.setOptions(newOptions), lines 245-255; this.options is spread
\* with its eight properties
elementSetOptions(H, k, newOptions) ==
    With([H EXCEPT !.instances[k].options =
            mergeOptions(Spread(H.instances[k].options, newOptions))],
         LAMBDA H1 : With(update(H1, k), LAMBDA H2 : updateShadow(H2, k)))

\* a variant of WabiElement.restore() that leaves the clip-path as it is
elementRestoreKeepsClipPath(H, k) ==
    With(unwrap(H),
         LAMBDA H1 :
           [(IF H.instances[k].cleanups # <<>> THEN resizeCleanup(H1) ELSE H1)
              EXCEPT !.instances[k].cleanups = <<>>])

\* WabiElement.restore(), lines 257-263
elementRestore(H, k) ==
    With(unwrap(H),
         LAMBDA H1 :
           [(IF H.instances[k].cleanups # <<>> THEN resizeCleanup(H1) ELSE H1)
              EXCEPT !.element.clipPath = H.instances[k].originalStart.clipPath,
                     !.instances[k].cleanups = <<>>])

---------------------------------------------------------------------------
(* Loop, anim/Loop.js *)

RECURSIVE Without(_, _)
\* the sequence s without the value v
Without(s, v) ==
    IF s = <<>> THEN <<>>
    ELSE IF Head(s) = v THEN Without(Tail(s), v)
    ELSE <<Head(s)>> \o Without(Tail(s), v)

Members(s) == {s[j] : j \in DOMAIN s}

\* add(item), lines 16-21, with start(), lines 37-42; items is a Set and
\* keeps the order of insertion
loopAdd(H, item) ==
    [H EXCEPT
       !.loop.items = IF item \in Members(@) THEN @ ELSE Append(@, item),
       !.loop.isRunning = TRUE,
       !.loop.frameId = IF H.loop.isRunning THEN @ ELSE TRUE]

\* remove(item), lines 27-32, with stop(), lines 47-53
loopRemove(H, item) ==
    [H EXCEPT
       !.loop.items = Without(@, item),
       !.loop.isRunning = IF Without(H.loop.items, item) = <<>> THEN FALSE ELSE @,
       !.loop.frameId = IF H.loop.isRunning /\ Without(H.loop.items, item) = <<>>
                        THEN FALSE ELSE @]

---------------------------------------------------------------------------
(* Wabi, part_005 lines 266-378 *)

RECURSIVE UpdateEach(_, _)
\* this.wabiElements.forEach(el => el.update()), line 299
UpdateEach(H, els) ==
    IF els = <<>> THEN H
    ELSE With(update(H, Head(els)), LAMBDA H1 : UpdateEach(H1, Tail(els)))

\* Wabi.update(), lines 298-300
wabiUpdate(H, c) == UpdateEach(H, H.controls[c].wabiElements)

\* a new item object of control object c: one that is not in the loop (the
\* item that animate() replaces is referenced by nothing afterwards)
NewItem(H, c) ==
    [owner |-> c,
     n |-> CHOOSE n \in 1..(Len(H.loop.items) + 1) :
              [owner |-> c, n |-> n] \notin Members(H.loop.items)]

\* a variant of animate() that does not remove the item it replaces
animateKeepsOldItem(H, c, animateOptions) ==
    With([H EXCEPT !.controls[c].animationItem =
            [id |-> NewItem(H, c), elapsed |-> 0,
             interval |-> Coalesce(Get(animateOptions, "interval"),
                                   Num(DefaultInterval)).v]],
         LAMBDA H2 : loopAdd(H2, H2.controls[c].animationItem.id))

\* animate(animateOptions), lines 334-354
animate(H, c, animateOptions) ==
    With(IF H.controls[c].animationItem # Null
         THEN loopRemove(H, H.controls[c].animationItem.id) ELSE H,
         LAMBDA H1 :
           With([H1 EXCEPT !.controls[c].animationItem =
                   [id |-> NewItem(H1, c), elapsed |-> 0,
                    interval |-> Coalesce(Get(animateOptions, "interval"),
                                          Num(DefaultInterval)).v]],
                LAMBDA H2 : loopAdd(H2, H2.controls[c].animationItem.id)))

\* stop(), lines 356-361
stop(H, c) ==
    IF H.controls[c].animationItem # Null
    THEN [loopRemove(H, H.controls[c].animationItem.id)
            EXCEPT !.controls[c].animationItem = Null]
    ELSE H

\* get isAnimating(), lines 363-365
isAnimating(c) == controls[c].animationItem # Null

RECURSIVE RestoreEach(_, _)
\* the forEach of Wabi.restore(), lines 304-307
RestoreEach(H, els) ==
    IF els = <<>> THEN H
    ELSE With([elementRestore(H, Head(els)) EXCEPT !.element.instance = 0],
              LAMBDA H1 : RestoreEach(H1, Tail(els)))

\* Wabi.restore(), lines 302-309
wabiRestore(H, c) ==
    With(stop(H, c),
         LAMBDA H1 : [RestoreEach(H1, H1.controls[c].wabiElements)
                        EXCEPT !.controls[c].wabiElements = <<>>])

\* mergedBase of Wabi.setOptions for the WabiElement options `current`,
\* lines 314-328
MergedBase(current, newOptions) ==
    [Spread(Spread(current, newOptions),
            [corners |-> Obj(Spread(Props(current.corners),
                                    Props(OrElse(Get(newOptions, "corners"),
                                                 Obj(NoProps))))),
             edges |-> Obj(Spread(Props(current.edges),
                                  Props(OrElse(Get(newOptions, "edges"), Obj(NoProps))))),
             cutCorners |-> Coalesce(Get(newOptions, "cutCorners"), current.cutCorners),
             cornerChamfer |-> Coalesce(Get(newOptions, "cornerChamfer"),
                                        Get(current, "cornerChamfer"))])
       EXCEPT !["shadow"] =
           IF Get(newOptions, "shadow") = Bool(FALSE) THEN Bool(FALSE)
           ELSE IF Truthy(Get(newOptions, "shadow"))
                   /\ TypeOf(Get(newOptions, "shadow")) = "object"
                THEN Obj(Spread(Props(OrElse(current.shadow, Obj(NoProps))),
                                Props(Get(newOptions, "shadow"))))
                ELSE @]

RECURSIVE SetOptionsEach(_, _, _)
\* the forEach of Wabi.setOptions(newOptions), lines 312-331
SetOptionsEach(H, els, newOptions) ==
    IF els = <<>> THEN H
    ELSE With(elementSetOptions(H, Head(els),
                                 mergeOptions(MergedBase(H.instances[Head(els)].options,
                                                         newOptions))),
              LAMBDA H1 : SetOptionsEach(H1, Tail(els), newOptions))

\* Wabi.setOptions(newOptions), lines 311-332
wabiSetOptions(H, c, newOptions) ==
    SetOptionsEach(H, H.controls[c].wabiElements, newOptions)

\* new Wabi(selector, optionsOrCornerX, cornerY, edgePoints) for a selector
\* that gives the element, lines 267-296; a holds the arguments after the
\* selector
NewWabi(H, c, a) ==
    With(IF H.element.instance # 0 THEN elementRestore(H, H.element.instance) ELSE H,
         LAMBDA H1 :
           [NewWabiElement(H1, c, ConstructorOptions(a))
              EXCEPT !.element.instance = c,
                     !.controls[c] = [wabiElements |-> <<c>>, animationItem |-> Null]])

\* Wabi.apply(selector, options, ...args), lines 368-377
apply(H, c, a) ==
    With(NewWabi(H, c, a),
         LAMBDA H1 :
           IF TypeOf(a[1]) = "object" /\ Truthy(Get(Props(a[1]), "animate"))
           THEN animate(H1, c,
                        IF TypeOf(Get(Props(a[1]), "animate")) = "object"
                        THEN Props(Get(Props(a[1]), "animate")) ELSE NoProps)
           ELSE H1)

\* new Wabi(selector, ...) for a selector that gives no element, lines
\* 267-272: the constructor returns before it sets wabiElements and
\* animationItem
NewWabiNoElements == [elements |-> <<>>]

\* Wabi.apply for such a selector, lines 368-377: the error it throws, and
\* the control object it returns otherwise
applyNoElements(a) ==
    With(NewWabiNoElements,
         LAMBDA instance :
           IF "wabiElements" \notin DOMAIN instance
           THEN [threw |-> Str("TypeError")]
           ELSE [threw |-> Null, returned |-> instance])

RECURSIVE TickEach(_, _, _)
\* the forEach of tick, Loop.js lines 65-69, with the update of the items of
\* animate (part_005 lines 344-350), which reads the item through
\* this.animationItem; an item whose control object holds no item makes the
\* read throw, and the frame is not requested again
TickEach(H, its, deltaTime) ==
    IF its = <<>> THEN [H EXCEPT !.loop.frameId = TRUE]
    ELSE IF H.controls[Head(its).owner].animationItem = Null
    THEN [H EXCEPT !.loop.frameId = FALSE]
    ELSE IF H.controls[Head(its).owner].animationItem.elapsed + deltaTime
            >= H.controls[Head(its).owner].animationItem.interval
    THEN With([wabiUpdate(H, Head(its).owner)
                 EXCEPT !.controls[Head(its).owner].animationItem.elapsed = 0],
              LAMBDA H1 : TickEach(H1, Tail(its), deltaTime))
    ELSE With([H EXCEPT !.controls[Head(its).owner].animationItem.elapsed =
                           @ + deltaTime],
              LAMBDA H1 : TickEach(H1, Tail(its), deltaTime))

\* tick(timestamp), Loop.js lines 59-72
tick(H, deltaTime) ==
    IF ~H.loop.isRunning THEN [H EXCEPT !.loop.frameId = FALSE]
    ELSE TickEach(H, H.loop.items, deltaTime)

\* conditionalCallback of setupResizeObserver for WabiElement k, part_003
\* lines 58-67
conditionalCallback(H, k) ==
    IF H.resize.callback.bypassDebounceOnce /\ ~H.resize.callback.hasCalledOnce
    THEN With([H EXCEPT !.resize.callback.hasCalledOnce = TRUE],
              LAMBDA H1 : handleResize(H1, k))
    ELSE [H EXCEPT !.instances[k].timeoutId = TRUE]

\* handleResizeEntries(entries) for the entry of the element, part_003 lines
\* 23-30
handleResizeEntries(H) ==
    IF H.resize.callback # Undefined
    THEN With([H EXCEPT !.resize.timeoutId = FALSE],
              LAMBDA H1 : conditionalCallback(H1, H1.resize.callback.owner))
    ELSE [H EXCEPT !.resize.timeoutId = FALSE]

---------------------------------------------------------------------------
(* Inputs of the DOM side *)

\* the inline clip-path the page gave the element
OriginalClipPaths == {Str("circle(50%)")}

\* offsetWidth and offsetHeight of an element in the document: a square, a
\* 2:1 box (an element without a parent is 0 x 0)
Sizes == {<<100, 100>>, <<200, 100>>}

\* the numbers given in the shorthand forms
ShorthandX == {Num(0), Num(FP(5))}
ShorthandY == {Num(0 - FP(4)), Num(NaN)}
ShorthandN == {Num(0), Num(FP(2))}

\* wabi(sel, x, y) and wabi(sel, x, y, n), and wabi(sel, x)
ShorthandCalls ==
    {<<x, y, Undefined>> : x \in ShorthandX, y \in ShorthandY}
    \cup {<<x, y, n>> : x \in ShorthandX, y \in ShorthandY, n \in ShorthandN}
    \cup {<<Num(FP(5)), Undefined, Undefined>>}

\* wabi(sel, options)
OptionCalls ==
    {<<Obj(o), Undefined, Undefined>> : o \in
       {NoProps,
        [shadow |-> Obj(NoProps), wrapperClass |-> Str("fancy")],
        [shadow |-> Obj([y |-> Num(FP(2))]), wrapperClass |-> Str(""),
         animate |-> Bool(TRUE)],
        [preserveOnResize |-> Bool(FALSE)],
        [preserveOnResize |-> Bool(FALSE), units |-> Str("px"), seed |-> Num(FP(1))],
        [units |-> Str("px"), animate |-> Obj([interval |-> Num(200)]),
         shadow |-> Bool(FALSE)]}}

\* the calls that are followed by another wabi() on the element
ReappliedCalls ==
    {<<Obj(o), Undefined, Undefined>> : o \in
       {[shadow |-> Obj(NoProps), wrapperClass |-> Str("fancy")]}}

\* the calls that re-apply wabi() to the element
SecondCalls == {<<Num(FP(5)), Num(FP(4)), Num(FP(2))>>}

\* the first calls of wabi() on the element
Calls == ShorthandCalls \cup OptionCalls \cup SecondCalls

\* the sequences of wabi() calls on the element
CallSequences ==
    {<<a>> : a \in Calls} \cup {<<a, b>> : a \in ReappliedCalls, b \in SecondCalls}

\* the partial options given to setOptions
NewOptions ==
    {[shadow |-> Bool(FALSE)],
     [shadow |-> Obj([blur |-> Num(FP(2))]), wrapperClass |-> Str("late")]}

\* the arguments of animate()
AnimateOptions == {NoProps}

\* the time between two frames, in ms
DeltaTimes == {100}

---------------------------------------------------------------------------
(* The page as a state machine *)

\* the page before wabi() is called
NoWabi ==
    /\ instances = [k \in Ids |-> Null]
    /\ controls = [c \in Ids |-> Null]
    /\ loop = [items |-> <<>>, isRunning |-> FALSE, frameId |-> FALSE]
    /\ wrappers = Null
    /\ resize = [observing |-> FALSE, lastReported |-> <<0, 0>>, callback |-> Undefined,
                 timeoutId |-> FALSE]

InitDom ==
    /\ original \in OriginalClipPaths
    /\ \E s \in Sizes, p \in {<<"page", "static">>, <<"page", "absolute">>,
                               <<"null", "static">>} :
          element = [clipPath |-> original, parentNode |-> p[1], position |-> p[2],
                     offsetWidth |-> (IF p[1] = "null" THEN 0 ELSE s[1]),
                     offsetHeight |-> (IF p[1] = "null" THEN 0 ELSE s[2]),
                     instance |-> 0]
    /\ NoWabi
    /\ calls = <<>>
    /\ thrown = Null
    /\ generator = NoRNG
    /\ wrapped = Word(0, 0)
    /\ returned = Null
    /\ applied = Null
    /\ args = [i \in Inv |-> Null]
    /\ pc = [i \in Inv |-> "done"]
    /\ rng = [i \in Inv |-> NoRNG]
    /\ mathRandom = Word(0, 0)
    /\ corners = [i \in Inv |-> <<>>]
    /\ polygon = [i \in Inv |-> <<>>]
    /\ cornersToCut = [i \in Inv |-> {}]
    /\ positions = [i \in Inv |-> <<>>]

\* the heap after a handler
Becomes(H) ==
    /\ element' = H.element
    /\ instances' = H.instances
    /\ controls' = H.controls
    /\ loop' = H.loop
    /\ wrappers' = H.wrappers
    /\ resize' = H.resize
    /\ UNCHANGED <<original, calls, thrown, polygonVars, rngVars, fnVars>>

\* the heap after wabi(selector, ...a) has returned
Called(H, a) ==
    /\ element' = H.element
    /\ instances' = H.instances
    /\ controls' = H.controls
    /\ loop' = H.loop
    /\ wrappers' = H.wrappers
    /\ resize' = H.resize
    /\ calls' = Append(calls, a)
    /\ thrown' = Null
    /\ UNCHANGED <<original, polygonVars, rngVars, fnVars>>

\* wabi(selector, ...a) returns control object c, the next one
Wabi(c, a) ==
    /\ controls[c] = Null
    /\ \A b \in Ids : b < c => controls[b] # Null
    /\ \E H \in {Heap} : \E h \in {apply(H, c, a)} : Called(h, a)

WabiCall ==
    \E c \in Ids : \E a \in Calls :
       /\ Append(calls, a) \in CallSequences
       /\ Wabi(c, a)

\* wabi(selector, ...a) for a selector that gives no element, before the
\* first wabi() on the element: nothing of the page changes
WabiNoElements ==
    /\ calls = <<>>
    /\ \E a \in Calls : thrown' = applyNoElements(a).threw
    /\ UNCHANGED <<element, instances, controls, loop, wrappers, resize, original, calls,
                   polygonVars, rngVars, fnVars>>

Update(c) ==
    /\ c \in Created
    /\ \E H \in {Heap} : \E h \in {wabiUpdate(H, c)} : Becomes(h)

SetOptions(c) ==
    /\ c \in Created
    /\ \E o \in NewOptions : \E H \in {Heap} : \E h \in {wabiSetOptions(H, c, o)} :
          Becomes(h)

Animate(c) ==
    /\ c \in Created
    /\ \E o \in AnimateOptions : \E H \in {Heap} : \E h \in {animate(H, c, o)} :
          Becomes(h)

Stop(c) ==
    /\ c \in Created
    /\ \E H \in {Heap} : \E h \in {stop(H, c)} : Becomes(h)

Restore(c) ==
    /\ c \in Created
    /\ \E H \in {Heap} : \E h \in {wabiRestore(H, c)} : Becomes(h)

\* the browser runs the frame callback that was requested
Tick ==
    /\ loop.frameId
    /\ \E d \in DeltaTimes : \E H \in {Heap} : \E h \in {tick(H, d)} :
          Becomes(h)

\* whether the element is laid out: it is in the document, or its wrapper is
InDocument ==
    \/ element.parentNode = "page"
    \/ element.parentNode = "wrapper" /\ wrappers # Null /\ wrappers.parentNode = "page"

\* the layout gives the element another size: the element grows
Layout ==
    /\ InDocument
    /\ \E s \in Sizes :
          /\ s[1] > element.offsetWidth
          /\ Becomes([Heap EXCEPT !.element.offsetWidth = s[1],
                                  !.element.offsetHeight = s[2]])

\* the ResizeObserver finds the size of the observed element different from
\* the size it last reported (0 x 0 after observe()) and calls the debounced
\* handleResizeEntries, which restarts its 20 ms timer
ResizeObserved ==
    /\ resize.observing
    /\ resize.lastReported # <<element.offsetWidth, element.offsetHeight>>
    /\ Becomes([Heap EXCEPT
                  !.resize.lastReported = <<element.offsetWidth, element.offsetHeight>>,
                  !.resize.timeoutId = TRUE])

\* the 20 ms timer fires: handleResizeEntries
ObserverTimeout ==
    /\ resize.timeoutId
    /\ \E H \in {Heap} : \E h \in {handleResizeEntries(H)} :
          Becomes(h)

\* the 100 ms timer of the debounced callback of WabiElement k fires:
\* handleResize
DebounceTimeout(k) ==
    /\ instances[k] # Null
    /\ instances[k].timeoutId
    /\ \E H \in {[Heap EXCEPT !.instances[k].timeoutId = FALSE]} :
          \E h \in {handleResize(H, k)} : Becomes(h)

NextDom ==
    \/ WabiCall
    \/ WabiNoElements
    \/ \E c \in Ids : Update(c)
    \/ \E c \in Ids : SetOptions(c)
    \/ \E c \in Ids : Animate(c)
    \/ \E c \in Ids : Stop(c)
    \/ \E c \in Ids : Restore(c)
    \/ Tick
    \/ Layout
    \/ ResizeObserved
    \/ ObserverTimeout
    \/ \E k \in Ids : DebounceTimeout(k)

SpecDom == InitDom /\ [][NextDom]_vars

---------------------------------------------------------------------------
(* A generator function of createRNG called on its own *)

\* the 32-bit seeds tried: those of the polygons, and the largest and the
\* smallest 32-bit integer
RNGSeeds == SeedValues \cup {2147483647, 0 - 2147483647 - 1}

RECURSIVE TimesIncrement(_)
\* n * 0x6d2b79f5, exact
TimesIncrement(n) ==
    IF n = 0 THEN JSInteger(0)
    ELSE With(TimesIncrement(n \div 2), LAMBDA h :
           IF n % 2 = 0 THEN AddExact(h, h)
           ELSE AddExact(AddExact(h, h), [over |-> 0, word |-> Increment]))

\* the closure of createRNG(seed) after n calls that left `seed` below 2^53:
\* every addition was exact
AfterCalls(seed, n) ==
    [createRNG(seed) EXCEPT !.seed = AddExact(@, TimesIncrement(n)), !.calls = n]

\* a generator function as createRNG returns it, or one that has been called
\* LateCalls times
InitRNG ==
    /\ \E seed \in RNGSeeds, n \in {0, LateCalls} :
          /\ generator = AfterCalls(seed, n)
          /\ generator.seed.over < ExactOver
          /\ wrapped = generator.seed.word
    /\ returned = Null
    /\ applied = Null
    /\ original = [t |-> "string", v |-> ""]
    /\ element = [clipPath |-> original, parentNode |-> "page", position |-> "static",
                  offsetWidth |-> 0, offsetHeight |-> 0, instance |-> 0]
    /\ NoWabi
    /\ calls = <<>>
    /\ thrown = Null
    /\ args = [i \in Inv |-> Null]
    /\ pc = [i \in Inv |-> "done"]
    /\ rng = [i \in Inv |-> NoRNG]
    /\ mathRandom = Word(0, 0)
    /\ corners = [i \in Inv |-> <<>>]
    /\ polygon = [i \in Inv |-> <<>>]
    /\ cornersToCut = [i \in Inv |-> {}]
    /\ positions = [i \in Inv |-> <<>>]

\* rng(): one call of the generator function
Draw ==
    /\ generator.calls < LateCalls + MaxDraws
    /\ generator.calls < MaxDraws \/ generator.calls >= LateCalls
    /\ \E g \in {Generate(generator)} :
          /\ generator' = g.rng
          /\ returned' = g.k
    /\ wrapped' = Add32(wrapped, Increment)
    /\ UNCHANGED <<polygonVars, domVars, fnVars>>

NextRNG == Draw

SpecRNG == InitRNG /\ [][NextRNG]_vars

---------------------------------------------------------------------------
(* Claims about the control object *)

\* control object c is the one the latest wabi() call returned
Latest(c) == c \in Created /\ \A b \in Created : b <= c

\* no control object has been restored: restore() alone empties wabiElements
NoneRestored == \A b \in Created : controls[b].wabiElements # <<>>

\* C16 as stated: restore() on the latest control object, after wabi() calls
\* (the element re-applied included), update(), setOptions(), animation ticks
\* and resize callbacks, leaves the inline clip-path equal to the value before
\* the first wabi() and the element outside of any shadow wrapper.
C16_Stated ==
    [][\A c \in Ids :
         (Latest(c) /\ NoneRestored /\ Restore(c))
            => /\ element'.clipPath = original
               /\ element'.parentNode \notin {"wrapper", "removed"}]_vars

\* the options object of the call a gives a shadow object and a non-empty
\* wrapperClass
ShadowWithWrapperClass(a) ==
    IF TypeOf(a[1]) = "object" /\ a[1] # Null
    THEN /\ TypeOf(Get(a[1].props, "shadow")) = "object"
         /\ Truthy(Get(a[1].props, "shadow"))
         /\ Get(a[1].props, "wrapperClass").t = "string"
         /\ Truthy(Get(a[1].props, "wrapperClass"))
    ELSE FALSE

\* C17 as stated: when wabi() is given a shadow object together with a
\* non-empty wrapperClass, the shadow wrapper it creates carries that class in
\* addition to "wabi-shadow-wrapper".
C17_Stated ==
    [][\A c \in Ids : \A a \in Calls :
         (ShadowWithWrapperClass(a) /\ Wabi(c, a) /\ wrappers = Null /\ wrappers' # Null)
            => {"wabi-shadow-wrapper", Get(a[1].props, "wrapperClass").v}
                  \subseteq wrappers'.classList]_vars

\* C18 as stated: with preserveOnResize false no resize notification ever
\* regenerates the clip-path, neither the notification that handleResize
\* takes at once nor one that reaches it through the 100 ms timer.
C18_Stated ==
    [][/\ (/\ ObserverTimeout
           /\ resize.callback # Undefined
           /\ instances[resize.callback.owner].options.preserveOnResize = Bool(FALSE))
          => element'.clipPath = element.clipPath
       /\ \A k \in Ids :
            (/\ DebounceTimeout(k)
             /\ instances[k].options.preserveOnResize = Bool(FALSE))
               => element'.clipPath = element.clipPath]_vars

\* the arguments of the structured form that the shorthand call a stands for
Structured(a) ==
    IF a[3].t = "number"
    THEN <<Obj([corners |-> Obj([x |-> a[1], y |-> a[2]]),
                edges |-> Obj([points |-> a[3]])]), Undefined, Undefined>>
    ELSE <<Obj([corners |-> Obj([x |-> a[1], y |-> a[2]])]), Undefined, Undefined>>

\* C19: wabi(sel, x, y) gives the WabiElement the merged options of
\* wabi(sel, {corners: {x, y}}), and wabi(sel, x, y, n) those of
\* wabi(sel, {corners: {x, y}, edges: {points: n}}), for numbers x, y and n.
C19_ShorthandEquivalent ==
    [][\A c \in Ids : \A a \in Calls :
         (a[1].t = "number" /\ a[2].t = "number" /\ Wabi(c, a))
            => instances'[c].options = ConstructorOptions(Structured(a))]_vars

\* a wabi(sel, x, NaN, 2) call has given its WabiElement these offsets and
\* two points per edge
C19_Witness ==
    \E c \in Created :
       /\ calls[c][1].t = "number"
       /\ calls[c][2] = Num(NaN)
       /\ calls[c][3] = Num(FP(2))
       /\ instances[c].options.corners.props.x = calls[c][1]
       /\ instances[c].options.corners.props.y = Num(NaN)
       /\ instances[c].options.edges.props.points = Num(FP(2))

\* the items of control object c that are registered in the loop
ItemsOf(c) == {it \in Members(loop.items) : it.owner = c}

\* C20: for every control object, isAnimating is true exactly when one item
\* of the object, its animationItem, is registered in the loop, and never
\* more than one is registered; isAnimating is true right after animate()
\* and false right after stop() and after restore().
C20_IsAnimating ==
    /\ [](\A c \in Created :
            /\ Cardinality(ItemsOf(c)) <= 1
            /\ isAnimating(c) <=> Cardinality(ItemsOf(c)) = 1
            /\ isAnimating(c) => ItemsOf(c) = {controls[c].animationItem.id})
    /\ [][\A c \in Ids :
            /\ Animate(c) => isAnimating(c)'
            /\ Stop(c) => ~isAnimating(c)'
            /\ Restore(c) => ~isAnimating(c)']_vars

\* a control object that wabi() did not start animates after animate(),
\* with its one item in the running loop
C20_Witness ==
    \E c \in Created :
       /\ Get(Props(calls[c][1]), "animate") = Undefined
       /\ isAnimating(c)
       /\ ItemsOf(c) = {controls[c].animationItem.id}
       /\ loop.isRunning

---------------------------------------------------------------------------
(* Claims about the edges of the interface *)

\* C21 as stated: wabi() with a selector that resolves to no element does
\* not throw (and returns a control object without elements whose restore(),
\* update(), setOptions() and stop() do nothing).
C21_Stated == thrown = Null

---------------------------------------------------------------------------
(* Claims about the generator function *)

\* C22 as stated: for every 32-bit seed, every value a generator function of
\* createRNG(seed) returns is k / 2^32 for an integer k of 0..2^32-1, and the
\* sequence is that of mulberry32 computed with 32-bit wraparound: the state
\* advances by 0x6d2b79f5 modulo 2^32 on each call.
C22_Stated ==
    returned # Null
       => /\ returned.hi \in 0..(Half - 1) /\ returned.lo \in 0..(Half - 1)
          /\ generator.seed.word = wrapped
          /\ returned = Mulberry32(wrapped)

\* what holds of every call: the value is k / 2^32 with k in 0..2^32-1, and
\* the sequence is that of mulberry32 with 32-bit wraparound for as long as
\* `seed` is below 2^53
C22_UntilInexact ==
    returned # Null
       => /\ returned.hi \in 0..(Half - 1) /\ returned.lo \in 0..(Half - 1)
          /\ generator.seed.over < ExactOver
                => generator.seed.word = wrapped /\ returned = Mulberry32(wrapped)

---------------------------------------------------------------------------
(* C23: seeded invocations share no state *)

Seeded(i) == getRNG(Default(Options(i).seed, Null)).kind = "seeded"

\* C23: seeded generatePolygon invocations share no mutable state: however
\* the steps of two invocations, with the same or with different seeds,
\* interleave, a step changes the generator of the invocation that takes it
\* and no other, and each invocation returns the polygon, and leaves its
\* generator in the state, of that invocation run alone from its first line
\* to its return.
C23_NoSharedState ==
    /\ [](\A i \in Inv : Done(i) /\ Seeded(i) =>
            With(generatePolygon(args[i], Word(0, 0)), LAMBDA alone :
              polygon[i] = alone.polygon /\ rng[i] = alone.rng))
    /\ [][\A i \in Inv : Seeded(i) /\ rng[i]' # rng[i] => pc[i]' # pc[i] /\
            \A j \in Inv \ {i} : pc[j]' = pc[j] /\ rng[j]' = rng[j]]_vars

\* invocation 1, seeded, has drawn its corners and waits while invocation 2,
\* with another seed, has drawn its corners and its edge points
C23_Witness ==
    /\ pc[1] = "edges" /\ pc[2] = "cut"
    /\ Seeded(1) /\ Seeded(2) /\ Options(1).seed # Options(2).seed
    /\ rng[1].calls > 0 /\ rng[2].calls > rng[1].calls

---------------------------------------------------------------------------
(* C24: nothing touches the clip-path after restore() *)

\* every control object wabi() returned has been restored
Restored == Created # {} /\ \A c \in Created : controls[c].wabiElements = <<>>

\* C24: after restore() has returned, and until wabi() is called again, no
\* step changes the element's clip-path: no timer that was pending when
\* restore() ran, and no animation frame, regenerates the polygon.
C24_Stated ==
    [][Restored /\ Restored' => element'.clipPath = element.clipPath]_vars

\* C24, the animation half: after restore() no frame callback changes the
\* clip-path.
C24_NoTickAfterRestore ==
    [][Restored /\ Tick => element'.clipPath = element.clipPath]_vars

---------------------------------------------------------------------------
(* C25: where the corners are after edge insertion *)

\* the corner-cutting step's test of index (0-based) for corner c, lines 66-68
\* and 73-76, with stride = edges.points + 1
CutTest(i, index, c) ==
    index % (N(i) + 1) = 0 /\ index \div (N(i) + 1) = c

\* in the polygon of invocation i corner c is at index c * (N + 1), and the
\* test of the cutting step is true of index and c exactly when the point at
\* index is corner c
CornersAtStride(i) ==
    /\ \A c \in 0..3 :
          /\ c * (N(i) + 1) + 1 \in DOMAIN polygon[i]
          /\ polygon[i][c * (N(i) + 1) + 1].slot = c
    /\ \A k \in DOMAIN polygon[i], c \in 0..3 :
          CutTest(i, k - 1, c) <=> polygon[i][k].slot = c

\* C25 as stated (for the src tree): after edge insertion with
\* edges.points = N >= 0 and any deviation >= 0, 0 included, corner i is at
\* index i*(N+1), and the cutting step's test identifies exactly corner i.
C25_Stated ==
    \A i \in Inv :
        (pc[i] = "cut" /\ Src(i) /\ N(i) >= 0 /\ Deviation(i) >= 0)
            => CornersAtStride(i)

\* C25 where edge points are inserted (for the src tree): with N = 0, or
\* N > 0 and deviation > 0, corner i is at index i*(N+1) and the cutting
\* step's test identifies exactly corner i.
C25_WhenInserted ==
    \A i \in Inv :
        (pc[i] = "cut" /\ Src(i) /\ (N(i) = 0 \/ (N(i) > 0 /\ Deviation(i) > 0)))
            => CornersAtStride(i)

---------------------------------------------------------------------------
(* C26: what the full cut removes *)

\* the inset the corner cutting of invocation i computes, line 61
Inset(i) == Coalesce(Default(ReadOptions(args[i]).cornerInset, Num(FP(1))), Num(FP(1))).v

RECURSIVE WithoutCorners(_, _)
\* poly without the corner points of the corners in cut, the rest in order
WithoutCorners(poly, cut) ==
    IF poly = <<>> THEN <<>>
    ELSE (IF Head(poly).slot \in cut THEN <<>> ELSE <<Head(poly)>>)
         \o WithoutCorners(Tail(poly), cut)

\* the step of invocation i is a full cut
FullCutStep(i) ==
    /\ pc[i] = "cut" /\ pc'[i] = "done" /\ Src(i)
    /\ Options(i).cutCorners > 0 /\ Inset(i) >= FP(1)

\* C26 as stated (for the src tree): a full cut with cutCorners = k returns
\* the polygon it was given with the corner points of the k selected corners
\* deleted, every other point kept unchanged and in order.
C26_Stated ==
    [][\A i \in Inv :
          FullCutStep(i) => polygon'[i] = WithoutCorners(polygon[i], cornersToCut'[i])]_vars

\* C26 where edge points are inserted (for the src tree): with
\* edges.points = 0 or edges.deviation not 0, a full cut returns the polygon
\* it was given with the corner points of the selected corners deleted.
C26_WhenInserted ==
    [][\A i \in Inv :
          FullCutStep(i) /\ (N(i) = 0 \/ Deviation(i) # 0)
              => polygon'[i] = WithoutCorners(polygon[i], cornersToCut'[i])]_vars

---------------------------------------------------------------------------
(* C27: the partial inset *)

\* the step of invocation i is a partial inset
PartialInsetStep(i) ==
    /\ pc[i] = "cut" /\ pc'[i] = "done" /\ Src(i)
    /\ Options(i).cutCorners > 0 /\ Inset(i) > 0 /\ Inset(i) < FP(1)

\* the point at index k of poly moved by inset towards the midpoint of its
\* cyclic predecessor and successor in poly
TowardsMidpoint(poly, k, inset) ==
    LET prev == poly[IF k = 1 THEN Len(poly) ELSE k - 1]
        next == poly[IF k = Len(poly) THEN 1 ELSE k + 1]
        mx == Div(Add(prev.x, next.x), FP(2))
        my == Div(Add(prev.y, next.y), FP(2))
    IN [x |-> Add(poly[k].x, Mul(Sub(mx, poly[k].x), inset)),
        y |-> Add(poly[k].y, Mul(Sub(my, poly[k].y), inset))]

\* the result `after` of a partial inset of `before` for the corners in cut:
\* each selected corner moved towards the midpoint of its neighbours in
\* `before`, every other point unchanged
InsetOf(before, after, cut, inset) ==
    /\ Len(after) = Len(before)
    /\ \A k \in DOMAIN before :
          IF before[k].slot \in cut
          THEN /\ after[k].x = TowardsMidpoint(before, k, inset).x
               /\ after[k].y = TowardsMidpoint(before, k, inset).y
          ELSE after[k] = before[k]

\* C27 as stated (for the src tree): with 0 < inset < 1 each selected corner
\* is replaced by corner + inset * (midpoint - corner), the midpoint being
\* that of its cyclic predecessor and successor in the polygon before any
\* corner was moved, and every unselected point is returned unchanged.
C27_Stated ==
    [][\A i \in Inv :
          PartialInsetStep(i)
              => InsetOf(polygon[i], polygon'[i], cornersToCut'[i], Inset(i))]_vars

\* C27 where edge points are inserted (for the src tree): the same for
\* edges.points = 0 or edges.deviation not 0.
C27_WhenInserted ==
    [][\A i \in Inv :
          PartialInsetStep(i) /\ (N(i) = 0 \/ Deviation(i) # 0)
              => InsetOf(polygon[i], polygon'[i], cornersToCut'[i], Inset(i))]_vars

---------------------------------------------------------------------------
(* C28: selectCornersToCut *)

\* the counts selectCornersToCut is tried with
Counts == (0 - 1)..5

\* what selectCornersToCut(count, rng) returns and draws from the source src
SelectsCount(count, src) ==
    With(selectCornersToCut(count, src), LAMBDA sel :
      /\ sel.selected \subseteq {0, 1, 2, 3}
      /\ Cardinality(sel.selected) = (IF count <= 0 THEN 0 ELSE IF count >= 4 THEN 4 ELSE count)
      /\ sel.src.rng.calls - src.rng.calls = (IF count \in 1..3 THEN count ELSE 0)
      /\ (count \notin 1..3 => sel.src = src))

\* C28: called with the generator in any state a call of generatePolygon
\* brings it to before the corner cutting, selectCornersToCut returns for an
\* integer count in 1..3 exactly count distinct indices of {0,1,2,3} and
\* draws exactly count numbers; for count >= 4 it returns all four indices
\* and for count <= 0 none, and draws nothing.
C28_SelectCornersToCut ==
    \A i \in Inv :
        pc[i] = "cut" => \A count \in Counts : SelectsCount(count, Source(rng[i], mathRandom))

\* C28, its case: a call that drew nothing before the corner cutting selected
\* three corners with three draws
C28_Witness ==
    \E i \in Inv :
        /\ Done(i) /\ Options(i).cutCorners = 3
        /\ Cardinality(cornersToCut[i]) = 3
        /\ rng[i].calls = 3

---------------------------------------------------------------------------
(* C29: the draws of generateCorners *)

\* the corner (index 0..3) that the displacement (dx, dy), drawn as the
\* values u and v, makes of the base corner, for invocation i
Displaced(i, index, u, v) ==
    LET W == args[i].width
        H == args[i].height
        ox == Options(i).corners.x
        oy == Options(i).corners.y
        b == baseCorners(W, H)[index + 1]
    IN Point(clampCornerX(Add(b.x, randomInRange(u, Neg(ox), ox)), index, W, ox),
             clampCornerY(Add(b.y, randomInRange(v, Neg(oy), oy)), index, H, oy),
             index)

\* the step is generateCorners of invocation i with an offset that is not 0
DisplacingStep(i) ==
    /\ pc[i] = "call" /\ pc'[i] = "edges"
    /\ (Options(i).corners.x # 0 \/ Options(i).corners.y # 0)

\* C29: with at least one corner offset not 0, generateCorners with
\* independent true draws exactly 8 numbers, dx then dy for TL, TR, BR, BL in
\* that order, and with independent false exactly 2, one dx and one dy, and
\* adds that pair to each of the four corners before clamping.
C29_CornerDraws ==
    [][\A i \in Inv :
          DisplacingStep(i) =>
            With(CallRNGTimes(Source(getRNG(Default(Options(i).seed, Null)), mathRandom),
                              IF Options(i).corners.independent THEN 8 ELSE 2), LAMBDA d :
              /\ rng'[i] = d.src.rng
              /\ mathRandom' = d.src.engine
              /\ rng'[i].calls = (IF Options(i).corners.independent THEN 8 ELSE 2)
              /\ \A index \in 0..3 :
                    corners'[i][index + 1] =
                        IF Options(i).corners.independent
                        THEN Displaced(i, index, d.values[2 * index + 1],
                                       d.values[2 * index + 2])
                        ELSE Displaced(i, index, d.values[1], d.values[2]))]_vars

\* C29, its case: a uniform displacement of two draws that moved the corners
C29_Witness ==
    \E i \in Inv :
        /\ pc[i] = "edges"
        /\ ~Options(i).corners.independent
        /\ Options(i).corners.x > 0 /\ Options(i).corners.y > 0
        /\ rng[i].calls = 2
        /\ corners[i] # baseCorners(args[i].width, args[i].height)

---------------------------------------------------------------------------
(* C30: the order of the draws of one call *)

\* the options of invocation i as its build reads them
Read(i) == ReadOptions(args[i])

\* the numbers of draws of the three phases of invocation i
CornerDraws(i) ==
    IF Options(i).corners.x = 0 /\ Options(i).corners.y = 0 THEN 0
    ELSE IF Options(i).corners.independent THEN 8 ELSE 2
PositionDraws(i) == IF Read(i).edges.distribution = "even" THEN 0 ELSE Read(i).edges.points
EdgeDraws(i) ==
    IF Read(i).edges.points <= 0 \/ Read(i).edges.deviation = 0 THEN 0
    ELSE 4 * (PositionDraws(i) + Read(i).edges.points)
SelectionDraws(i) == IF Read(i).cutCorners \in 1..3 THEN Read(i).cutCorners ELSE 0

\* the point at position t of the edge from start to the corner after it,
\* displaced across the edge by the offset made of the value u
EdgePointOf(start, end, t, u, deviation) ==
    LET vx == Sub(end.x, start.x)
        vy == Sub(end.y, start.y)
        length == Hypot(vx, vy)
        offset == randomInRange(u, Neg(deviation), deviation)
    IN Point(Add(Add(start.x, Mul(t, vx)), Mul(offset, Div(Neg(vy), length))),
             Add(Add(start.y, Mul(t, vy)), Mul(offset, Div(vx, length))),
             EdgeSlot)

RECURSIVE EdgesInOrder(_, _, _, _)
\* the polygon made of the corners cs when the edges from e (0 top, 1 right,
\* 2 bottom, 3 left) on take their numbers from src in the order: the
\* positions of the edge, then one offset per point of the edge in the order
\* of the points, then the next edge
EdgesInOrder(cs, E, src, e) ==
    IF e >= 4 THEN [polygon |-> <<>>, src |-> src]
    ELSE With(getPositions(E.points, E.distribution, src), LAMBDA p :
         With(CallRNGTimes(p.src, E.points), LAMBDA o :
         With(EdgesInOrder(cs, E, o.src, e + 1), LAMBDA rest :
           [polygon |->
              <<cs[e + 1]>>
              \o [k \in 1..E.points |->
                    EdgePointOf(cs[e + 1], cs[((e + 1) % 4) + 1], p.positions[k],
                                o.values[k], E.deviation)]
              \o rest.polygon,
            src |-> rest.src])))

\* C30: one call draws its numbers in a fixed order. When the corners are
\* made the call has drawn the corner numbers and nothing else; edge
\* insertion then takes, from where the corner draws stopped, the numbers of
\* the top, right, bottom and left edge in that order, for each edge the
\* positions before the offsets and one offset per point in the order of the
\* points; the corner selection takes its numbers from where edge insertion
\* stopped, and the call ends having drawn the three numbers of draws added.
C30_DrawOrder ==
    /\ [](\A i \in Inv :
            /\ pc[i] = "edges" => rng[i].calls = CornerDraws(i)
            /\ pc[i] = "cut" => rng[i].calls = CornerDraws(i) + EdgeDraws(i)
            /\ Done(i) => rng[i].calls = CornerDraws(i) + EdgeDraws(i) + SelectionDraws(i))
    /\ [][\A i \in Inv :
            (pc[i] = "edges" /\ pc'[i] = "cut" /\ EdgeDraws(i) > 0) =>
              With(EdgesInOrder(corners[i], Read(i).edges, Source(rng[i], mathRandom), 0),
                   LAMBDA inOrder :
                /\ polygon'[i] = inOrder.polygon
                /\ rng'[i] = inOrder.src.rng
                /\ mathRandom' = inOrder.src.engine)]_vars
    /\ [][\A i \in Inv :
            (pc[i] = "cut" /\ pc'[i] = "done" /\ Read(i).cutCorners > 0) =>
              With(selectCornersToCut(Read(i).cutCorners, Source(rng[i], mathRandom)),
                   LAMBDA sel :
                /\ cornersToCut'[i] = sel.selected
                /\ rng'[i] = sel.src.rng
                /\ mathRandom' = sel.src.engine)]_vars

\* C30, its case: a call that drew 8 numbers for the corners, 16 for two
\* points on each edge and 2 for the corner selection
C30_Witness ==
    \E i \in Inv :
        /\ Done(i)
        /\ CornerDraws(i) = 8 /\ EdgeDraws(i) = 16 /\ SelectionDraws(i) = 2
        /\ rng[i].calls = 26
        /\ Cardinality(cornersToCut[i]) = 2

---------------------------------------------------------------------------
(* Functions of the library called on their own *)

\* the values a caller's generator function returns: 0, the smallest and the
\* largest value above 0 of the resolution, and one half
RNGOutputs == {0, 1, Scale \div 2, Scale - 1}

\* the sequences of length n over S
SeqsOf(S, n) == [1..n -> S]

\* getPositions(count, distribution, rng) about to be called
PositionCalls ==
    {[fn |-> "getPositions", count |-> n, distribution |-> d,
      rng |-> suppliedRNG(vs), pc |-> "call", result |-> <<>>] :
        n \in 1..MaxPoints, d \in Distributions, vs \in SeqsOf(RNGOutputs, MaxPoints)}

\* partial option objects
PartialOptions ==
    {[corners |-> Obj([x |-> Num(FP(9))])],
     [corners |-> Obj([independent |-> Bool(FALSE)]), edges |-> Obj([deviation |-> Num(0)])],
     [edges |-> Obj([points |-> Num(FP(2))])],
     [cutCorners |-> Num(FP(2))],
     [cornerInset |-> Num(Tenths(5))],
     [cornerChamfer |-> Num(Tenths(5))],
     [seed |-> Num(FP(7))],
     [units |-> Str("px")],
     [preserveOnResize |-> Bool(FALSE)],
     [shadow |-> Obj([blur |-> Num(FP(2))])],
     [shadow |-> Obj([color |-> Str("red")])],
     [shadow |-> Bool(FALSE)]}

\* the options of a WabiElement with the options `current` after
\* setOptions(p) of its control object: Wabi.setOptions, lines 311-332, and
\* WabiElement.setOptions, line 246
AfterSetOptions(current, p) ==
    mergeOptions(Spread(current, mergeOptions(MergedBase(current, p))))

\* the sub-field g of the field f is not present in the partial object p
SubFieldAbsent(p, f, g) == f \notin DOMAIN p \/ g \notin DOMAIN Props(p[f])

\* setOptions(p) keeps every field of `current` that p does not give
Kept(current, p) ==
    With(AfterSetOptions(current, p), LAMBDA after :
      /\ DOMAIN after = DOMAIN current
      /\ \A f \in {"cutCorners", "cornerInset", "seed", "units", "preserveOnResize", "shadow"} :
            f \notin DOMAIN p => after[f] = current[f]
      /\ \A f \in {"corners", "edges"} : \A g \in DOMAIN current[f].props :
            SubFieldAbsent(p, f, g) => after[f].props[g] = current[f].props[g]
      /\ (TypeOf(current.shadow) = "object" /\ current.shadow # Null
          /\ "shadow" \in DOMAIN p /\ p.shadow # Bool(FALSE)) =>
            \A g \in DOMAIN current.shadow.props :
                SubFieldAbsent(p, "shadow", g)
                    => Get(Props(after.shadow), g) = current.shadow.props[g])

\* the options objects wabi() is given for the WabiElement options below
UserOptions ==
    {NoProps,
     [shadow |-> Bool(FALSE), units |-> Str("px")],
     [corners |-> Obj([x |-> Num(FP(2)), y |-> Num(0), independent |-> Bool(FALSE)]),
      edges |-> Obj([points |-> Num(FP(3)), deviation |-> Num(0),
                     distribution |-> Str("even")]),
      cutCorners |-> Num(FP(2)), cornerInset |-> Num(Tenths(5)), seed |-> Num(FP(42)),
      units |-> Str("px"), preserveOnResize |-> Bool(FALSE),
      shadow |-> Obj([x |-> Num(FP(1)), blur |-> Num(FP(3))])]}

\* setOptions(partial) of a control object about to be called, its
\* WabiElement having the options `current`
SetOptionsCalls ==
    {[fn |-> "setOptions", current |-> mergeOptions(u), partial |-> p,
      pc |-> "call", result |-> <<>>] : u \in UserOptions, p \in PartialOptions}

\* the restriction of the function f to the names S
Restrict(f, S) == [x \in S |-> f[x]]

\* values a user gives for the fields of corners, of edges and of the options
\* object: k = 1 the falsy ones (0, false), k = 2 others
CornerValues(k) ==
    [x |-> Num(IF k = 1 THEN 0 ELSE FP(7)), y |-> Num(IF k = 1 THEN 0 ELSE FP(7)),
     independent |-> Bool(k = 2)]

EdgeValues(k) ==
    [points |-> Num(IF k = 1 THEN 0 ELSE 2), deviation |-> Num(IF k = 1 THEN 0 ELSE FP(1)),
     distribution |-> Str(IF k = 1 THEN "even" ELSE "weighted-center")]

TopValues(k) ==
    [cutCorners |-> Num(IF k = 1 THEN 0 ELSE 2),
     cornerChamfer |-> Num(IF k = 1 THEN 0 ELSE Tenths(5)),
     seed |-> Num(IF k = 1 THEN 0 ELSE FP(42)),
     preserveOnResize |-> Bool(k = 2)]

\* the user options that give the fields C of corners, E of edges and T of
\* the options object; corners and edges are absent when none of their
\* fields is given
MergeInput(C, E, T, k) ==
    Spread(Spread(IF C = {} THEN NoProps
                  ELSE [corners |-> Obj(Restrict(CornerValues(k), C))],
                  IF E = {} THEN NoProps
                  ELSE [edges |-> Obj(Restrict(EdgeValues(k), E))]),
           Restrict(TopValues(k), T))

\* mergeOptions(userOptions) about to be called
MergeCalls ==
    {[fn |-> "mergeOptions", userOptions |-> MergeInput(C, E, T, k),
      pc |-> "call", result |-> <<>>] :
        C \in SUBSET DOMAIN CornerValues(1), E \in SUBSET DOMAIN EdgeValues(1),
        T \in SUBSET DOMAIN TopValues(1), k \in 1..2}

\* generatePolygon(width, height, options) about to be called, and called
\* again afterwards, with the same options object, which gives a seed
GeneratePolygonCalls ==
    {[fn |-> "generatePolygon", a |-> a, pc |-> "call", first |-> <<>>, result |-> <<>>] :
        a \in {x \in FirstArguments : x.build = "src" /\ x.options.seed # Null}}

\* the inline styles of an element that wrap and unwrap assign to, and the
\* position its style sheet gives it
InlineStyles ==
    [margin : {"", "10px"}, position : {"", "relative", "absolute"},
     top : {"", "5px"}, right : {""}, bottom : {""}, left : {"", "5px"}]

\* getComputedStyle(element).position
ComputedPosition(style, sheet) == IF style.position # "" THEN style.position ELSE sheet

\* shadowManager.wrap(element, ...) about to be called, and unwrap(element)
\* after it, on an element without a wrapper
WrapCalls ==
    {[fn |-> "wrap", style |-> st, sheet |-> sh, before |-> st, wrapper |-> FALSE,
      pc |-> "call"] : st \in InlineStyles, sh \in {"static", "fixed"}}

InitFn ==
    /\ applied \in PositionCalls \cup SetOptionsCalls \cup MergeCalls
                   \cup GeneratePolygonCalls \cup WrapCalls
    /\ generator = NoRNG
    /\ wrapped = Word(0, 0)
    /\ returned = Null
    /\ original = [t |-> "string", v |-> ""]
    /\ element = [clipPath |-> original, parentNode |-> "page", position |-> "static",
                  offsetWidth |-> 0, offsetHeight |-> 0, instance |-> 0]
    /\ NoWabi
    /\ calls = <<>>
    /\ thrown = Null
    /\ args = [i \in Inv |-> Null]
    /\ pc = [i \in Inv |-> "done"]
    /\ rng = [i \in Inv |-> NoRNG]
    /\ mathRandom = Word(0, 0)
    /\ corners = [i \in Inv |-> <<>>]
    /\ polygon = [i \in Inv |-> <<>>]
    /\ cornersToCut = [i \in Inv |-> {}]
    /\ positions = [i \in Inv |-> <<>>]

\* the call of getPositions returns
GetPositions ==
    /\ applied.fn = "getPositions" /\ applied.pc = "call"
    /\ \E p \in {getPositions(applied.count, applied.distribution,
                              Source(applied.rng, mathRandom))} :
          applied' = [applied EXCEPT !.result = p.positions, !.rng = p.src.rng, !.pc = "done"]
    /\ UNCHANGED <<polygonVars, domVars, rngVars>>

\* the call of setOptions returns: the options its WabiElement has then
SetOptionsReturns ==
    /\ applied.fn = "setOptions" /\ applied.pc = "call"
    /\ applied' = [applied EXCEPT
                     !.result = AfterSetOptions(applied.current, applied.partial),
                     !.pc = "done"]
    /\ UNCHANGED <<polygonVars, domVars, rngVars>>

\* the call of mergeOptions returns
MergeOptionsReturns ==
    /\ applied.fn = "mergeOptions" /\ applied.pc = "call"
    /\ applied' = [applied EXCEPT !.result = mergeOptions(applied.userOptions),
                                  !.pc = "done"]
    /\ UNCHANGED <<polygonVars, domVars, rngVars>>

\* a variant in which the generator advances options.seed itself
optionsAfterSeedAdvanced(a, r) ==
    IF r.kind = "seeded" THEN [a EXCEPT !.options.seed = OtherSeed(@)] ELSE a

\* the arguments of generatePolygon after the call, r being the generator at
\* its return: polygon.js lines 39-45 read the options by destructuring,
\* the seed is passed to getRNG by value and `seed += 0x6d2b79f5` (part_002
\* line 8) assigns to the parameter of createRNG; no statement assigns to
\* options or to its corners and edges
optionsAfter(a, r) == a

\* the call of generatePolygon returns, first and again
GeneratePolygon ==
    /\ applied.fn = "generatePolygon" /\ applied.pc \in {"call", "again"}
    /\ \E g \in {generatePolygon(applied.a, mathRandom)} :
          applied' = IF applied.pc = "call"
                     THEN [applied EXCEPT !.first = g.polygon,
                                          !.a = optionsAfter(applied.a, g.rng),
                                          !.pc = "again"]
                     ELSE [applied EXCEPT !.result = g.polygon,
                                          !.a = optionsAfter(applied.a, g.rng),
                                          !.pc = "done"]
    /\ UNCHANGED <<polygonVars, domVars, rngVars>>

\* the inline styles of the element after syncStyles(element, wrapper),
\* ShadowManager.js lines 58-86
syncStyles(style, computedPosition) ==
    IF computedPosition \in {"absolute", "fixed"}
    THEN [style EXCEPT !.margin = "0", !.position = "static", !.top = "auto",
                       !.right = "auto", !.bottom = "auto", !.left = "auto"]
    ELSE [style EXCEPT !.margin = "0"]

\* wrap(element, dropShadow, options), lines 17-51: the inline styles and
\* whether the map has a wrapper for the element
wrapStyles(w) ==
    IF ComputedPosition(w.style, w.sheet) \in {"fixed", "absolute"} THEN w
    ELSE [w EXCEPT !.wrapper = TRUE,
                   !.style = syncStyles(w.style, ComputedPosition(w.style, w.sheet))]

\* unwrap(element), lines 92-111
unwrapStyles(w) ==
    IF ~w.wrapper THEN w
    ELSE [w EXCEPT !.wrapper = FALSE,
                   !.style = [margin |-> "", position |-> "", top |-> "", right |-> "",
                              bottom |-> "", left |-> ""]]

\* wrap returns
WrapReturns ==
    /\ applied.fn = "wrap" /\ applied.pc = "call"
    /\ applied' = [wrapStyles(applied) EXCEPT !.pc = "wrapped"]
    /\ UNCHANGED <<polygonVars, domVars, rngVars>>

\* unwrap returns
UnwrapReturns ==
    /\ applied.fn = "wrap" /\ applied.pc = "wrapped"
    /\ applied' = [unwrapStyles(applied) EXCEPT !.pc = "done"]
    /\ UNCHANGED <<polygonVars, domVars, rngVars>>

NextFn ==
    \/ GetPositions
    \/ SetOptionsReturns
    \/ MergeOptionsReturns
    \/ GeneratePolygon
    \/ WrapReturns
    \/ UnwrapReturns

SpecFn == InitFn /\ [][NextFn]_vars

---------------------------------------------------------------------------
(* C31: the positions along an edge *)

\* getPositions has returned the positions ts for the distribution d
PositionsReturned(d) ==
    applied # Null /\ applied.fn = "getPositions" /\ applied.pc = "done"
    /\ applied.distribution = d

\* C31 as stated: every position getPositions returns is, for random, in the
\* open interval (0.1, 0.9), for weighted-center in [0.1, 0.9], and for even
\* strictly between 0 and 1, whatever the generator returns in [0, 1), 0
\* included.
C31_Stated ==
    /\ PositionsReturned("random") =>
          \A k \in DOMAIN applied.result :
              Tenths(1) < applied.result[k] /\ applied.result[k] < Tenths(9)
    /\ PositionsReturned("weighted-center") =>
          \A k \in DOMAIN applied.result :
              Tenths(1) <= applied.result[k] /\ applied.result[k] <= Tenths(9)
    /\ PositionsReturned("even") =>
          \A k \in DOMAIN applied.result :
              0 < applied.result[k] /\ applied.result[k] < FP(1)

\* C31 amended: every position getPositions returns is, for random, in the
\* half-open interval [0.1, 0.9), with 0.1 when the generator returns 0, for
\* weighted-center in [0.1, 0.9], and for even strictly between 0 and 1; so
\* every position is strictly between 0 and 1.
C31_Positions ==
    /\ PositionsReturned("random") =>
          \A k \in DOMAIN applied.result :
              Tenths(1) <= applied.result[k] /\ applied.result[k] < Tenths(9)
    /\ PositionsReturned("weighted-center") =>
          \A k \in DOMAIN applied.result :
              Tenths(1) <= applied.result[k] /\ applied.result[k] <= Tenths(9)
    /\ PositionsReturned("even") =>
          \A k \in DOMAIN applied.result :
              0 < applied.result[k] /\ applied.result[k] < FP(1)
    /\ (applied # Null /\ applied.fn = "getPositions" /\ applied.pc = "done") =>
          \A k \in DOMAIN applied.result :
              0 < applied.result[k] /\ applied.result[k] < FP(1)

\* C31, its case: random positions of which the first is 0.1, for a generator
\* that returned 0
C31_Witness ==
    /\ PositionsReturned("random")
    /\ applied.count = MaxPoints
    /\ 0 \in {applied.rng.values[k] : k \in DOMAIN applied.rng.values}
    /\ applied.result[1] = Tenths(1)
    /\ applied.rng.calls = MaxPoints

---------------------------------------------------------------------------
(* C32: which resize notifications regenerate *)

\* the step delivers a resize notification to handleResize of WabiElement k:
\* at once from the observer's callback, or when the 100 ms timer fires
Notified(k) ==
    \/ /\ ObserverTimeout
       /\ resize.callback # Undefined
       /\ resize.callback.owner = k
       /\ resize.callback.bypassDebounceOnce /\ ~resize.callback.hasCalledOnce
    \/ DebounceTimeout(k)

\* the element's clip-path is a polygon wabi generated
Generated == "polygon" \in DOMAIN element.clipPath

\* the aspect ratio of the element when its clip-path was generated
GeneratedRatio == Div(FP(element.clipPath.width), FP(element.clipPath.height))

\* C32 as stated: in '%' mode a resize notification changes the clip-path
\* only if the aspect ratio differs by more than 1% from the ratio the
\* clip-path was last generated at; a notification at that same ratio, the
\* first one after the initial render included, leaves the clip-path as it
\* is. In 'px' mode every notification regenerates.
C32_Stated ==
    [][\A k \in Ids :
         (Notified(k) /\ Generated) =>
            /\ (instances[k].options.units = Str("%")
                /\ ~AspectChanged(AspectRatio(Heap), GeneratedRatio))
                  => element'.clipPath = element.clipPath
            /\ instances[k].options.units = Str("px")
                  => element'.clipPath = update(Heap, k).element.clipPath]_vars

\* C32 in the terms of the code: in '%' mode a resize notification changes
\* the clip-path only if lastAspectRatio is 0 (no notification has
\* regenerated yet) or the aspect ratio differs by more than 1% from
\* lastAspectRatio, the ratio at the last regeneration a notification made.
C32_SinceLastNotification ==
    [][\A k \in Ids :
         (Notified(k) /\ instances[k].options.units = Str("%")
          /\ instances[k].lastAspectRatio # 0
          /\ ~AspectChanged(AspectRatio(Heap), instances[k].lastAspectRatio))
            => element'.clipPath = element.clipPath]_vars

---------------------------------------------------------------------------
(* C33: what setOptions changes *)

\* the step is setOptions({shadow: false}) on control object c
ShadowOff(c) ==
    /\ c \in Created /\ controls[c].wabiElements # <<>>
    /\ \E h \in {wabiSetOptions(Heap, c, [shadow |-> Bool(FALSE)])} : Becomes(h)

\* the step gives WabiElement k its options, or other options than it had
OptionsSet(k) ==
    /\ instances'[k] # Null
    /\ instances[k] = Null \/ instances'[k].options # instances[k].options

\* C33 as stated: whatever options a WabiElement has got from wabi() or
\* setOptions(), setOptions(partial) changes only the fields the partial
\* object gives, sub-fields of corners, edges and an existing shadow
\* included, and setOptions({shadow: false}) leaves the element outside of
\* any shadow wrapper.
C33_Stated ==
    /\ [][\A k \in Ids : OptionsSet(k) =>
            \A p \in PartialOptions : Kept(instances'[k].options, p)]_vars
    /\ [][\A c \in Ids : ShadowOff(c) =>
            /\ wrappers' = Null
            /\ element'.parentNode \notin {"wrapper", "removed"}]_vars

\* C33, the fields: setOptions(partial) changes only the fields the partial
\* object gives, sub-fields of corners, edges and an existing shadow
\* included.
C33_FieldsKept ==
    (applied # Null /\ applied.fn = "setOptions" /\ applied.pc = "done")
        => /\ applied.result = AfterSetOptions(applied.current, applied.partial)
           /\ Kept(applied.current, applied.partial)

\* C33, the wrapper of an element that is in the document:
\* setOptions({shadow: false}) puts the element back and removes the wrapper.
C33_WrapperRemovedInDocument ==
    [][\A c \in Ids :
         (ShadowOff(c) /\ InDocument)
            => /\ wrappers' = Null
               /\ element'.parentNode \notin {"wrapper", "removed"}]_vars
---------------------------------------------------------------------------
(* C34: mergeOptions gives the user's value, or the default *)

\* mergeOptions has returned
Merged == applied # Null /\ applied.fn = "mergeOptions" /\ applied.pc = "done"

\* o.g.f, undefined when o.g is not an object
SubGet(o, g, f) == Get(Props(Get(o, g)), f)

\* the field f of the result is the user's value when the user gave one and
\* the default otherwise
UserOrDefault(u, r, f) ==
    Get(r, f) = IF Get(u, f) # Undefined THEN Get(u, f) ELSE Get(defaultOptions, f)

\* the same for the field f of the object g
SubUserOrDefault(u, r, g, f) ==
    SubGet(r, g, f) = IF SubGet(u, g, f) # Undefined THEN SubGet(u, g, f)
                      ELSE SubGet(defaultOptions, g, f)

\* the fields of the claim other than the chamfer amount
OtherFieldsMerged(u, r) ==
    /\ \A f \in {"x", "y", "independent"} : SubUserOrDefault(u, r, "corners", f)
    /\ \A f \in {"points", "deviation", "distribution"} : SubUserOrDefault(u, r, "edges", f)
    /\ \A f \in {"cutCorners", "seed", "preserveOnResize"} : UserOrDefault(u, r, f)

\* the documented defaults
DocumentedDefaults ==
    /\ defaultOptions.corners = Obj([x |-> Num(FP(5)), y |-> Num(FP(4)),
                                     independent |-> Bool(TRUE)])
    /\ defaultOptions.edges = Obj([points |-> Num(0), deviation |-> Num(FP(3)),
                                   distribution |-> Str("random")])
    /\ defaultOptions.cutCorners = Num(0)
    /\ defaultOptions.cornerInset = Num(FP(1))
    /\ defaultOptions.seed = Null
    /\ defaultOptions.preserveOnResize = Bool(TRUE)

\* the chamfer amount of merged options: the field generatePolygon reads
ChamferAmount(r) == Get(r, "cornerInset")

\* C34 as stated: for corners.x, corners.y, corners.independent,
\* edges.points, edges.deviation, edges.distribution, cutCorners, the chamfer
\* amount given as cornerChamfer, seed and preserveOnResize, mergeOptions
\* returns the user's value when it is supplied, 0 and false included, and
\* the documented default otherwise
C34_Stated ==
    Merged =>
        /\ DocumentedDefaults
        /\ OtherFieldsMerged(applied.userOptions, applied.result)
        /\ ChamferAmount(applied.result)
              = IF Get(applied.userOptions, "cornerChamfer") # Undefined
                THEN Get(applied.userOptions, "cornerChamfer")
                ELSE Num(FP(1))

\* C34, the part that holds: the nine other fields have the user's value
\* or the documented default, and the chamfer amount is the default when
\* the user gives no cornerChamfer
C34_OtherFields ==
    Merged =>
        /\ DocumentedDefaults
        /\ OtherFieldsMerged(applied.userOptions, applied.result)
        /\ Get(applied.userOptions, "cornerChamfer") = Undefined
              => ChamferAmount(applied.result) = Num(FP(1))

\* a call that gave the falsy values 0 and false for every field has returned
C34_FalsyGiven ==
    /\ Merged
    /\ SubGet(applied.userOptions, "corners", "independent") = Bool(FALSE)
    /\ SubGet(applied.userOptions, "edges", "points") = Num(0)
    /\ Get(applied.userOptions, "seed") = Num(0)
    /\ Get(applied.userOptions, "preserveOnResize") = Bool(FALSE)
---------------------------------------------------------------------------
(* The animation Loop on its own, anim/Loop.js lines 4-73.  Here `loop` is  *)
(* the Loop object with the page's list of requested frame callbacks        *)
(* (requests) and the number of calls update() of each item has received     *)
(* (updates).  frameId 0 is null.                                           *)

MaxFrames == 3
MaxUpdates == 2

\* the items given to the loop; item 3 has no update method
Items == 1..3
HasUpdate(item) == item # 3

\* requestAnimationFrame(callback): the callback is listed under an id not
\* in use
requestAnimationFrame(L) ==
    With(CHOOSE id \in 1..MaxFrames :
            id \notin L.requests /\ \A j \in 1..(id - 1) : j \in L.requests,
         LAMBDA id : [L EXCEPT !.frameId = id, !.requests = @ \cup {id}])

\* cancelAnimationFrame(id)
cancelAnimationFrame(L, id) == [L EXCEPT !.requests = @ \ {id}]

\* start(), lines 37-42
Loop_start(L) ==
    IF L.isRunning THEN L
    ELSE requestAnimationFrame([L EXCEPT !.isRunning = TRUE])

\* a variant of stop() that leaves the requested frame in place
Loop_stopNoCancel(L) ==
    [L EXCEPT !.isRunning = FALSE, !.frameId = 0]

\* stop(), lines 47-53
Loop_stop(L) ==
    With([L EXCEPT !.isRunning = FALSE],
         LAMBDA L1 : IF L1.frameId # 0
                     THEN [cancelAnimationFrame(L1, L1.frameId) EXCEPT !.frameId = 0]
                     ELSE L1)

\* add(item), lines 16-21
Loop_add(L, item) ==
    With([L EXCEPT !.items = IF item \in Members(@) THEN @ ELSE Append(@, item)],
         LAMBDA L1 : IF ~L1.isRunning /\ Len(L1.items) > 0 THEN Loop_start(L1) ELSE L1)

\* remove(item), lines 27-32
Loop_remove(L, item) ==
    With([L EXCEPT !.items = Without(@, item)],
         LAMBDA L1 : IF L1.isRunning /\ Len(L1.items) = 0 THEN Loop_stop(L1) ELSE L1)

\* tick(timestamp), lines 59-72; the updates of the items call neither add
\* nor remove
Loop_tick(L) ==
    IF ~L.isRunning THEN L
    ELSE requestAnimationFrame(
           [L EXCEPT !.updates = [i \in Items |->
                IF i \in Members(L.items) /\ HasUpdate(i) THEN @[i] + 1 ELSE @[i]]])

\* new Loop(), lines 5-10
InitLoop ==
    /\ loop = [items |-> <<>>, isRunning |-> FALSE, frameId |-> 0,
               requests |-> {}, updates |-> [i \in Items |-> 0]]
    /\ applied = Null
    /\ generator = NoRNG
    /\ wrapped = Word(0, 0)
    /\ returned = Null
    /\ original = [t |-> "string", v |-> ""]
    /\ element = [clipPath |-> original, parentNode |-> "page", position |-> "static",
                  offsetWidth |-> 0, offsetHeight |-> 0, instance |-> 0]
    /\ instances = [k \in Ids |-> Null]
    /\ controls = [c \in Ids |-> Null]
    /\ wrappers = Null
    /\ resize = [observing |-> FALSE, lastReported |-> <<0, 0>>,
                 callback |-> Undefined, timeoutId |-> FALSE]
    /\ calls = <<>>
    /\ thrown = Null
    /\ args = [i \in Inv |-> Null]
    /\ pc = [i \in Inv |-> "done"]
    /\ rng = [i \in Inv |-> NoRNG]
    /\ mathRandom = Word(0, 0)
    /\ corners = [i \in Inv |-> <<>>]
    /\ polygon = [i \in Inv |-> <<>>]
    /\ cornersToCut = [i \in Inv |-> {}]
    /\ positions = [i \in Inv |-> <<>>]

LoopBecomes(L) ==
    /\ loop' = L
    /\ UNCHANGED <<element, instances, controls, wrappers, resize, original, calls, thrown>>
    /\ UNCHANGED <<polygonVars, rngVars, fnVars>>

\* loop.add(item)
LoopAdd(item) ==
    /\ Cardinality(loop.requests) < MaxFrames
    /\ LoopBecomes(Loop_add(loop, item))

\* loop.remove(item)
LoopRemove(item) ==
    /\ item \in Items
    /\ LoopBecomes(Loop_remove(loop, item))

\* the page delivers a requested frame: its callback, tick, runs
LoopFrame ==
    /\ \A i \in Items : loop.updates[i] < MaxUpdates
    /\ \E id \in loop.requests :
          LoopBecomes(Loop_tick([loop EXCEPT !.requests = @ \ {id}]))

NextLoop ==
    \/ \E item \in Items : LoopAdd(item)
    \/ \E item \in Items : LoopRemove(item)
    \/ LoopFrame

SpecLoop == InitLoop /\ [][NextLoop]_vars

---------------------------------------------------------------------------
(* C35: the invariants of the animation loop *)

\* C35: after any sequence of add(item), remove(item) and delivered frames,
\* isRunning is true exactly when the item set is non-empty, a frame request
\* is outstanding exactly when isRunning is true, at most one frame request
\* is outstanding, and an update of an item runs only while the loop is
\* running
C35_LoopInvariants ==
    /\ [](/\ loop.isRunning <=> loop.items # <<>>
          /\ loop.requests # {} <=> loop.isRunning
          /\ Cardinality(loop.requests) <= 1
          /\ loop.isRunning => loop.requests = {loop.frameId})
    /\ [][\A i \in Items : loop'.updates[i] # loop.updates[i] => loop.isRunning]_vars

\* a loop that has run updates of its items and has stopped with no frame
\* requested
C35_Witness ==
    /\ loop.items = <<>>
    /\ ~loop.isRunning
    /\ loop.requests = {}
    /\ loop.updates[1] > 0 /\ loop.updates[2] > 0
---------------------------------------------------------------------------
(* C36: the shadow wrapper of an element *)

\* the wrappers map has an entry for the element exactly when the parent of
\* the element is that wrapper, and the wrapper is not inside another one
OneWrapper ==
    /\ wrappers # Null <=> element.parentNode = "wrapper"
    /\ wrappers # Null => wrappers.parentNode \in {"page", "null"}
    /\ element.parentNode # "removed"

\* a step in which the element stays wrapped keeps the wrapper and changes at
\* most its filter
WrapperReused ==
    (wrappers # Null /\ wrappers' # Null)
        => wrappers' = [wrappers EXCEPT !.filter = wrappers'.filter]

\* a step that unwraps puts the element where the wrapper was
UnwrappedInPlace ==
    (wrappers # Null /\ wrappers' = Null) => element'.parentNode = wrappers.parentNode

\* C36 as stated: after any sequence of wrap and unwrap calls on an element
\* that is not position fixed or absolute, the element has at most one
\* wrapper, which a repeated wrap reuses, the map has an entry exactly when
\* the element's parent is that wrapper, after unwrap the element is a child
\* of its original parent in the wrapper's place, and unwrap on an unwrapped
\* element changes nothing
C36_Stated ==
    /\ [](element.position \notin {"fixed", "absolute"} =>
             /\ OneWrapper
             /\ wrappers = Null => unwrap(Heap) = Heap)
    /\ [][element.position \notin {"fixed", "absolute"} =>
             WrapperReused /\ UnwrappedInPlace]_vars

\* C36 for an element that has a parent: the same holds
C36_WithParent ==
    /\ [](InDocument /\ element.position \notin {"fixed", "absolute"} =>
             /\ OneWrapper
             /\ wrappers = Null => unwrap(Heap) = Heap)
    /\ [][InDocument /\ element.position \notin {"fixed", "absolute"} =>
             WrapperReused /\ UnwrappedInPlace]_vars
---------------------------------------------------------------------------
(* C37: a displaced corner stays within its offset of its base corner *)

\* C37: for offsets >= 0 each corner generateCorners returns lies within its
\* offset of its base corner, on the inner side: TL has x in [0, offsetX] and
\* y in [0, offsetY], TR has x in [W - offsetX, W] and y in [0, offsetY], BR
\* has x in [W - offsetX, W] and y in [H - offsetY, H], BL has x in
\* [0, offsetX] and y in [H - offsetY, H], with independent true and false
C37_WithinOffset ==
    \A i \in Inv :
        (/\ CornersMade(i)
         /\ Options(i).corners.x >= 0 /\ Options(i).corners.y >= 0)
            => LET W == args[i].width
                   H == args[i].height
                   ox == Options(i).corners.x
                   oy == Options(i).corners.y
               IN /\ 0 <= TL(i).x /\ TL(i).x <= ox /\ 0 <= TL(i).y /\ TL(i).y <= oy
                  /\ W - ox <= TR(i).x /\ TR(i).x <= W /\ 0 <= TR(i).y /\ TR(i).y <= oy
                  /\ W - ox <= BR(i).x /\ BR(i).x <= W /\ H - oy <= BR(i).y /\ BR(i).y <= H
                  /\ 0 <= BL(i).x /\ BL(i).x <= ox /\ H - oy <= BL(i).y /\ BL(i).y <= H

\* C37, its case: a uniform displacement to the right and upwards, which
\* moves the left corners inwards by less than the offset and leaves the
\* right corners on the box, with an offset larger than the width
C37_Witness ==
    \E i \in Inv :
        /\ CornersMade(i)
        /\ ~Options(i).corners.independent
        /\ Options(i).corners.x > args[i].width
        /\ TL(i).x > 0 /\ TL(i).x < Options(i).corners.x
        /\ TR(i).x = args[i].width
        /\ BL(i).x = TL(i).x
---------------------------------------------------------------------------
(* C38: restore() on a stale control object *)

\* control object c is stale: a later wabi() call has re-applied the effect
\* to the element, whose registered instance is the later one
Stale(c) ==
    /\ c \in Created
    /\ element.instance \in Created
    /\ element.instance > c

\* C38 as stated: restore() on a stale control object does not disturb the
\* later effect: the element keeps the later call's clip-path, its shadow
\* wrapper, its instance registration and its resize registration, and the
\* later control object and its WabiElement are as before
C38_Stated ==
    [][\A c \in Ids :
         (Stale(c) /\ Restore(c))
            => /\ element'.clipPath = element.clipPath
               /\ element'.parentNode = element.parentNode
               /\ wrappers' = wrappers
               /\ element'.instance = element.instance
               /\ resize' = resize
               /\ controls'[element.instance] = controls[element.instance]
               /\ instances'[element.instance] = instances[element.instance]]_vars

\* C38, the part that holds: the resize registration of the later effect,
\* the later control object and its WabiElement are as before
C38_LaterObjectsKept ==
    [][\A c \in Ids :
         (Stale(c) /\ Restore(c))
            => /\ resize' = resize
               /\ controls'[element.instance] = controls[element.instance]
               /\ instances'[element.instance] = instances[element.instance]]_vars
---------------------------------------------------------------------------
(* C39: generatePolygon and mergeOptions leave their inputs as they are *)

\* generatePolygon or mergeOptions is the function called
Generating == applied # Null /\ applied.fn = "generatePolygon"
Merging == applied # Null /\ applied.fn = "mergeOptions"

---------------------------------------------------------------------------
(* C40: the inline styles of the element through wrap and unwrap *)

\* wrap and then unwrap have returned
Unwrapped == applied # Null /\ applied.fn = "wrap" /\ applied.pc = "done"

\* C40 as stated: wrap followed by unwrap leaves the element's inline
\* margin, position, top, right, bottom and left equal to the values they had
\* before wrap, a non-empty inline margin included
C40_Stated == Unwrapped => applied.style = applied.before

\* the element had none of the six inline styles
NoInlineStyles(style) == \A f \in DOMAIN style : style[f] = ""

\* C40, the part that holds: the six inline styles are as before wrap when
\* the element had none of them, or when its position is fixed or absolute,
\* for which wrap makes no wrapper; otherwise the six are empty afterwards
C40_WhenEmptyOrNotWrapped ==
    Unwrapped =>
        /\ (\/ NoInlineStyles(applied.before)
            \/ ComputedPosition(applied.before, applied.sheet) \in {"fixed", "absolute"})
              => applied.style = applied.before
        /\ ComputedPosition(applied.before, applied.sheet) \notin {"fixed", "absolute"}
              => NoInlineStyles(applied.style)

====
